---- MODULE Spec2Model ----
(***************************************************************************)
(* Referee (ccheck.c) and search engine (engine.c) of the two-player board *)
(* game, as three communicating processes: the orchestrator, the engine    *)
(* child and the display child.  Pipes are sequences of lines, kill() runs *)
(* the receiver's handler in the same step (the orchestrator only blocks   *)
(* or exits after a kill, so the delay of delivery adds no behaviour), and *)
(* each process has a program counter at the points where the others can   *)
(* interleave.                                                             *)
(***************************************************************************)
EXTENDS Integers, Sequences, FiniteSets, TLC

(***************************************************************************)
(* Bounds of the model.                                                    *)
(***************************************************************************)
NMoves == 3
\* number of distinct non-zero Move values; odd ones are white's

MaxPly == 3
\* the game is over once this many plies are on a board

MAXPLY == 2
\* hard ply ceiling of iterative deepening (ccheck.h, not in src/)

MaxHist == 1
\* longest history file (-i) that is enumerated

MaxOut == 2
\* cap of the outstanding-command counters

MaxReplay == 3
\* longest history file of the history-replay specification

MaxFed == 2
\* the engine on its own is fed commands while its board has fewer plies

MaxIter == 2
\* longest time one call of bestmove takes, in seconds

MaxTime == 8
\* the clocks stop here: no more time passes once they add up to it

(***************************************************************************)
(* The board-engine library (ccheck.h): boards are the sequence of moves   *)
(* applied, 0 is the empty Move.                                           *)
(***************************************************************************)
Moves == 1..NMoves

X == "white"

O == "black"

Range(s) == {s[i] : i \in 1..Len(s)}

player_to_move(b) == IF Len(b) % 2 = 0 THEN X ELSE O

move_number(b) == Len(b)

game_over(b) == IF Len(b) < MaxPly THEN 0 ELSE IF Len(b) % 2 = 1 THEN 1 ELSE 2

Owner(mv) == IF mv % 2 = 1 THEN X ELSE O

\* a move is legal for the side to move, on a running game, when it has
\* not been played yet and is not blocked: the opponent's move mv - 1,
\* once played, blocks move mv.  A side can so be left without a legal
\* move on a game that is not over.
legal_move(mv, b) ==
    /\ mv \in Moves
    /\ game_over(b) = 0
    /\ Owner(mv) = player_to_move(b)
    /\ mv \notin Range(b)
    /\ (mv - 1) \notin Range(b)

LegalMoves(b) == {mv \in Moves : legal_move(mv, b)}

apply(b, mv) == Append(b, mv)

\* text of a move: the side to move of the board it is printed against,
\* and the move text; the empty move prints as text that parses to nothing
print_move(b, mv) == [k |-> "move", side |-> player_to_move(b), text |-> mv]

\* parsing a line: a move line yields its move whatever the side label,
\* any other line (banner, ok) yields the empty move
read_move_from_pipe(line, b) == IF line.k = "move" THEN line.text ELSE 0

\* lines of the best-line buffer a search of depth d may leave: a legal
\* line of at most d plies from b, zero-filled up to MAXPLY
ZeroPV == [i \in 1..MAXPLY |-> 0]

RECURSIVE LinesFrom(_, _, _)
LinesFrom(b, d, i) ==
    IF d = 0 \/ LegalMoves(b) = {}
    THEN {ZeroPV}
    ELSE UNION {{[l EXCEPT ![i] = mv] : l \in LinesFrom(apply(b, mv), d - 1, i + 1)}
                : mv \in LegalMoves(b)}

bestmove(b, d) == LinesFrom(b, d, 1)

\* the search's score is a decided win or loss when the game's end is
\* within its horizon
ScoreDecided(b, d) == Len(b) + d >= MaxPly

(***************************************************************************)
(* Lines on the wire.  ply, actor and src annotate an inform-move with the *)
(* ply it is for, who produced the move and whether it comes from the turn *)
(* loop or from the history replay; no process reads them.                 *)
(***************************************************************************)
ReqLine == [k |-> "req"]

InformLine(side, mv, ply, actor, src) ==
    [k |-> "inform", side |-> side, text |-> mv, ply |-> ply, actor |-> actor, src |-> src]

OkLine == [k |-> "ok"]

BannerLine == [k |-> "banner"]

ENG_PID == 2

DISP_PID == 3

VARIABLES
    cfg,            \* Config: launch parameters
    rpc,            \* orchestrator's position
    bd,             \* the referee's board (*bp in ccheck)
    m,              \* game_loop's m
    source,         \* who was asked for m: "engine", "display", "local", "none"
    hist_pos,       \* moves of the history file read so far
    g_eng_pid, g_disp_pid,
    g_got_sigint, g_got_sigterm, g_got_sigchld,
    streams_open,   \* the orchestrator's four child streams are open
    exit_status,    \* "none", "success", "failure"
    toEng, fromEng, toDisp, fromDisp,
    epc,            \* engine's position
    ebd,            \* the engine's board (*bp in engine)
    sighup_received, sigalrm_received,
    search_jmpbuf_valid,
    search_jmpbuf,  \* which sigsetjmp filled the buffer last, and best_depth then
    principal_var, depth, current_depth, best_depth,
    searching_on_opponent_time, first_wait,
    timer_armed,    \* the one-shot ITIMER_REAL is running
    dpc,            \* display's position
    emit_kind,      \* what the engine's last move line was
    outstanding,    \* per peer: commands issued whose response is unread
    unsignalled,    \* per peer: a command was written and no signal sent yet
    proposed_illegal, \* a source handed over a move illegal on bd
    malformed_seen, \* a non-blank line that parses to no move was read as an answer
    transcript,     \* the entries written to the transcript file (g_tx, with -o)
    sd_steps,       \* the steps of the shutdown performed so far, in order
    ack_missing,    \* an inform-move's acknowledgement read met the end of the stream
    exit_cause,     \* why the orchestrator left the turn loop or called die()
    xtime, otime,   \* the engine's clocks: time attributed to white and to black
    clock,          \* time since the engine's last setclock (now - movetime)
    time_limit,     \* engine's time_limit of the request being served
    iter,           \* time the depth iteration in progress has taken
    timer_left,     \* it_value of the ITIMER_REAL: time until it expires
    req_pending,    \* the engine has read a request-move it has not answered yet
    line_fate       \* what the last inform-move did to the stored best line, "carried" or
                    \* "discarded"; "searched" once a depth has completed or a move was emitted since

rvars == <<rpc, bd, m, source, hist_pos, g_eng_pid, g_disp_pid, g_got_sigint,
           g_got_sigterm, g_got_sigchld, streams_open, exit_status>>

pipes == <<toEng, fromEng, toDisp, fromDisp>>

evars == <<epc, ebd, sighup_received, sigalrm_received, search_jmpbuf_valid,
           search_jmpbuf, principal_var, depth, current_depth, best_depth,
           searching_on_opponent_time, first_wait, timer_armed>>

gvars == <<emit_kind, outstanding, unsignalled, proposed_illegal, malformed_seen>>

hvars == <<transcript, sd_steps, ack_missing, exit_cause>>

tvars == <<xtime, otime, clock, time_limit, iter, timer_left>>

vars == <<cfg, rvars, pipes, evars, dpc, gvars, hvars, tvars, line_fate, req_pending>>

Peers == {"engine", "display"}

RECURSIVE SeqsUpTo(_, _)
SeqsUpTo(S, n) ==
    IF n = 0 THEN {<<>>}
    ELSE LET T == SeqsUpTo(S, n - 1)
         IN  T \cup {Append(s, x) : s \in {t \in T : Len(t) = n - 1}, x \in S}

Config ==
    [play_white_engine : BOOLEAN, play_black_engine : BOOLEAN,
     no_display : BOOLEAN, tournament_mode : BOOLEAN,
     avgtime : {0, 1}, init_file : SeqsUpTo(Moves, MaxHist)]

\* the state at the start of ccheck(), the launch parameters apart
InitState ==
    /\ rpc = "spawn_display"
    /\ bd = <<>>
    /\ m = 0
    /\ source = "none"
    /\ hist_pos = 0
    /\ g_eng_pid = -1
    /\ g_disp_pid = -1
    /\ g_got_sigint = FALSE
    /\ g_got_sigterm = FALSE
    /\ g_got_sigchld = FALSE
    /\ streams_open = TRUE
    /\ exit_status = "none"
    /\ toEng = <<>>
    /\ fromEng = <<>>
    /\ toDisp = <<>>
    /\ fromDisp = <<>>
    /\ epc = "none"
    /\ ebd = <<>>
    /\ sighup_received = FALSE
    /\ sigalrm_received = FALSE
    /\ search_jmpbuf_valid = FALSE
    /\ search_jmpbuf = [at |-> "none", best_depth |-> 0]
    /\ principal_var = ZeroPV
    /\ depth = 0
    /\ current_depth = 1
    /\ best_depth = 0
    /\ searching_on_opponent_time = FALSE
    /\ first_wait = TRUE
    /\ timer_armed = FALSE
    /\ dpc = "none"
    /\ emit_kind = "none"
    /\ outstanding = [q \in Peers |-> 0]
    /\ unsignalled = [q \in Peers |-> FALSE]
    /\ proposed_illegal = FALSE
    /\ malformed_seen = FALSE
    /\ transcript = <<>>
    /\ sd_steps = <<>>
    /\ ack_missing = FALSE
    /\ exit_cause = "none"
    /\ xtime = 0
    /\ otime = 0
    /\ clock = 0
    /\ time_limit = 0
    /\ iter = 0
    /\ timer_left = 0
    /\ line_fate = "searched"
    /\ req_pending = FALSE

\* -t changes nothing the model keeps when -d is given: one of the two
\* settings stands for both
Init ==
    /\ cfg \in {c \in Config : c.no_display => ~c.tournament_mode}
    /\ InitState

(***************************************************************************)
(* Signals to the children.                                                *)
(***************************************************************************)
eregs == <<ebd, sighup_received, sigalrm_received, search_jmpbuf_valid,
           search_jmpbuf, principal_var, depth, current_depth, best_depth,
           searching_on_opponent_time, first_wait>>

\* the engine process ends (killed, crashed or returned from engine())
EngineEnds ==
    /\ epc' = "dead"
    /\ timer_armed' = FALSE
    /\ UNCHANGED eregs

EngineAlive == epc \notin {"none", "dead"}

DisplayAlive == dpc \notin {"none", "dead"}

\* SIGCHLD: on_sigchld flags every child of this step that ended
EngineEnded == EngineAlive /\ epc' = "dead"

ChildEnded ==
    \/ EngineEnded
    \/ DisplayAlive /\ dpc' = "dead"

\* what an abandoned bestmove(b, d) may leave in the buffer pv: any of
\* its entries overwritten with those of a line it was building
Clobbered(pv, b, d) ==
    {[i \in 1..MAXPLY |-> IF i \in S THEN l[i] ELSE pv[i]] :
        l \in bestmove(b, d), S \in SUBSET (1..MAXPLY)}

\* siglongjmp(search_jmpbuf, 1): control resumes after the sigsetjmp that
\* filled the buffer; best_depth, changed since that sigsetjmp when the
\* buffer is an earlier iteration's, is indeterminate; a buffer never
\* filled is undefined behaviour (crash, or the jump does nothing)
siglongjmp(sig) ==
    /\ UNCHANGED <<ebd, depth, current_depth, searching_on_opponent_time,
                   first_wait, search_jmpbuf>>
    /\ IF search_jmpbuf.at = "none"
       THEN \/ /\ epc' = "dead"
               /\ timer_armed' = FALSE
               /\ UNCHANGED <<search_jmpbuf_valid, principal_var, best_depth>>
            \/ /\ timer_armed' = (timer_armed /\ sig # "SIGALRM")
               /\ UNCHANGED <<epc, search_jmpbuf_valid, principal_var, best_depth>>
       ELSE /\ epc' = IF search_jmpbuf.at = "req" THEN "req_emit" ELSE "after_wait"
            /\ search_jmpbuf_valid' = FALSE
            /\ best_depth' \in {best_depth, search_jmpbuf.best_depth}
            /\ principal_var' \in
                   IF epc \in {"req_search", "opp_search"}
                   THEN Clobbered(principal_var, ebd, depth)
                   ELSE {principal_var}
            /\ timer_armed' = (timer_armed /\ sig # "SIGALRM")

\* engine_signal_handler(sig), run when sig is delivered to the engine;
\* before setup_engine_signals the default action ends the process
engine_signal_handler(sig) ==
    IF ~EngineAlive THEN UNCHANGED evars
    ELSE IF epc = "boot" THEN EngineEnds
    ELSE /\ sighup_received' = (sighup_received \/ sig = "SIGHUP")
         /\ sigalrm_received' = (sigalrm_received \/ sig = "SIGALRM")
         /\ IF search_jmpbuf_valid
            THEN siglongjmp(sig)
            ELSE /\ epc' = IF epc = "pause" THEN "after_wait" ELSE epc
                 /\ timer_armed' = (timer_armed /\ sig # "SIGALRM")
                 /\ UNCHANGED <<ebd, search_jmpbuf_valid, search_jmpbuf, principal_var,
                                depth, current_depth, best_depth,
                                searching_on_opponent_time, first_wait>>

\* SIGTERM or SIGKILL to a child: neither child handles it
EngineTerminated == IF EngineAlive THEN EngineEnds ELSE UNCHANGED evars

DisplayTerminated == dpc' = IF DisplayAlive THEN "dead" ELSE dpc

(***************************************************************************)
(* The orchestrator (ccheck.c).                                            *)
(***************************************************************************)
Inc(f, q) == [f EXCEPT ![q] = IF f[q] < MaxOut THEN f[q] + 1 ELSE MaxOut]

Dec(f, q) == [f EXCEPT ![q] = IF f[q] > 0 THEN f[q] - 1 ELSE 0]

\* reap_children_nonblock: the handle of every ended child becomes -1
ReapedEng == IF epc = "dead" THEN -1 ELSE g_eng_pid

ReapedDisp == IF dpc = "dead" THEN -1 ELSE g_disp_pid

\* spawn_display_if_needed up to the fork; pipe(), fork() (lines 219-223) or
\* fdopen (lines 239-240, with the child running) may fail, which is fatal
SpawnDisplay ==
    /\ rpc = "spawn_display"
    /\ IF cfg.no_display
       THEN /\ rpc' = "load_history"
            /\ UNCHANGED <<g_disp_pid, dpc, exit_cause>>
       ELSE \/ /\ g_disp_pid' = DISP_PID
               /\ dpc' = "boot"
               /\ rpc' = "banner_read"
               /\ UNCHANGED exit_cause
            \/ /\ rpc' = "die_term"
               /\ exit_cause' = "spawn_error"
               /\ \/ UNCHANGED <<g_disp_pid, dpc>>
                  \/ /\ g_disp_pid' = DISP_PID
                     /\ dpc' = "boot"
    /\ UNCHANGED <<cfg, bd, m, source, hist_pos, g_eng_pid, g_got_sigint, g_got_sigterm,
                   g_got_sigchld, streams_open, exit_status, pipes, evars, gvars,
                   transcript, sd_steps, ack_missing>>
    /\ UNCHANGED <<tvars, line_fate>>
    /\ UNCHANGED req_pending

\* the non-blocking read of the banner line: takes a line if one is there
BannerRead ==
    /\ rpc = "banner_read"
    /\ rpc' = "load_history"
    /\ fromDisp' = IF fromDisp # <<>> THEN Tail(fromDisp) ELSE fromDisp
    /\ UNCHANGED <<cfg, bd, m, source, hist_pos, g_eng_pid, g_disp_pid, g_got_sigint,
                   g_got_sigterm, g_got_sigchld, streams_open, exit_status,
                   toEng, fromEng, toDisp, evars, dpc, gvars, hvars>>
    /\ UNCHANGED <<tvars, line_fate>>
    /\ UNCHANGED req_pending

\* send_display_move(bp, p, mv): one inform-move line, flushed, no signal
send_display_move(b, p, mv, actor, src) ==
    IF g_disp_pid <= 0
    THEN UNCHANGED <<toDisp, outstanding, unsignalled>>
    ELSE /\ toDisp' = Append(toDisp, InformLine(p, mv, Len(b), actor, src))
         /\ outstanding' = Inc(outstanding, "display")
         /\ unsignalled' = [unsignalled EXCEPT !["display"] = TRUE]

\* load_history_if_any showing the move on the display without applying it
LoadHistory_ShowOnly ==
    /\ rpc = "load_history"
    /\ hist_pos < Len(cfg.init_file)
    /\ LET mv == cfg.init_file[hist_pos + 1]
       IN  /\ send_display_move(bd, player_to_move(bd), mv, "history", "hist")
           /\ bd' = bd
    /\ hist_pos' = hist_pos + 1
    /\ UNCHANGED <<cfg, rpc, m, source, g_eng_pid, g_disp_pid, g_got_sigint, g_got_sigterm,
                   g_got_sigchld, streams_open, exit_status, toEng, fromEng, fromDisp,
                   evars, dpc, emit_kind, proposed_illegal, malformed_seen, hvars>>
    /\ UNCHANGED <<tvars, line_fate>>
    /\ UNCHANGED req_pending

\* one turn of load_history_if_any's loop
LoadHistory ==
    /\ rpc = "load_history"
    /\ hist_pos < Len(cfg.init_file)
    /\ LET mv == cfg.init_file[hist_pos + 1]
       IN  /\ send_display_move(bd, player_to_move(bd), mv, "history", "hist")
           /\ bd' = apply(bd, mv)
    /\ hist_pos' = hist_pos + 1
    /\ UNCHANGED <<cfg, rpc, m, source, g_eng_pid, g_disp_pid, g_got_sigint, g_got_sigterm,
                   g_got_sigchld, streams_open, exit_status, toEng, fromEng, fromDisp,
                   evars, dpc, emit_kind, proposed_illegal, malformed_seen, hvars>>
    /\ UNCHANGED <<tvars, line_fate>>
    /\ UNCHANGED req_pending

\* the history file is exhausted (or there is none)
HistoryDone ==
    /\ rpc = "load_history"
    /\ hist_pos >= Len(cfg.init_file)
    /\ rpc' = "spawn_engine"
    /\ UNCHANGED <<cfg, bd, m, source, hist_pos, g_eng_pid, g_disp_pid, g_got_sigint,
                   g_got_sigterm, g_got_sigchld, streams_open, exit_status, pipes,
                   evars, dpc, gvars, hvars>>
    /\ UNCHANGED <<tvars, line_fate>>
    /\ UNCHANGED req_pending

\* spawn_engine_if_needed: the child starts in engine() with a copy of bp;
\* pipe(), fork() (lines 265-274) or fdopen (lines 290-291, with the child
\* running) may fail, which is fatal
SpawnEngine ==
    /\ rpc = "spawn_engine"
    /\ IF cfg.play_white_engine \/ cfg.play_black_engine
       THEN \/ /\ g_eng_pid' = ENG_PID
               /\ epc' = "boot"
               /\ ebd' = bd
               /\ rpc' = "loop_top"
               /\ UNCHANGED exit_cause
            \/ /\ rpc' = "die_term"
               /\ exit_cause' = "spawn_error"
               /\ \/ UNCHANGED <<g_eng_pid, epc, ebd>>
                  \/ /\ g_eng_pid' = ENG_PID
                     /\ epc' = "boot"
                     /\ ebd' = bd
       ELSE /\ rpc' = "loop_top"
            /\ UNCHANGED <<g_eng_pid, epc, ebd, exit_cause>>
    /\ UNCHANGED <<cfg, bd, m, source, hist_pos, g_disp_pid, g_got_sigint, g_got_sigterm,
                   g_got_sigchld, streams_open, exit_status, pipes, sighup_received,
                   sigalrm_received, search_jmpbuf_valid, search_jmpbuf, principal_var,
                   depth, current_depth, best_depth, searching_on_opponent_time,
                   first_wait, timer_armed, dpc, gvars, transcript, sd_steps, ack_missing>>
    /\ UNCHANGED <<tvars, line_fate>>
    /\ UNCHANGED req_pending

\* game_loop line 562: is the side to move the engine's
p_is_engine(b) ==
    IF player_to_move(b) = X THEN cfg.play_white_engine ELSE cfg.play_black_engine

\* line 550: the handles after the reap that a flagged SIGCHLD triggers
TopEngPid == IF g_got_sigchld THEN ReapedEng ELSE g_eng_pid

TopDispPid == IF g_got_sigchld THEN ReapedDisp ELSE g_disp_pid

AtTop == rpc = "loop_top" /\ ~(g_got_sigint \/ g_got_sigterm)

\* game_loop line 549: a termination signal was flagged
LoopSignalled ==
    /\ rpc = "loop_top"
    /\ g_got_sigint \/ g_got_sigterm
    /\ rpc' = "sd_term"
    /\ exit_cause' = "signal"
    /\ UNCHANGED <<cfg, bd, m, source, hist_pos, g_eng_pid, g_disp_pid, g_got_sigint,
                   g_got_sigterm, g_got_sigchld, streams_open, exit_status, toEng, fromEng,
                   toDisp, fromDisp, evars, dpc, emit_kind, outstanding, unsignalled,
                   proposed_illegal, malformed_seen, transcript, sd_steps, ack_missing>>
    /\ UNCHANGED <<tvars, line_fate>>
    /\ UNCHANGED req_pending

\* game_loop lines 550-559: the game is won
LoopGameOver ==
    /\ AtTop
    /\ game_over(bd) # 0
    /\ g_eng_pid' = TopEngPid
    /\ g_disp_pid' = TopDispPid
    /\ g_got_sigchld' = FALSE
    /\ rpc' = "sd_term"
    /\ exit_cause' = "game_over"
    /\ UNCHANGED <<cfg, bd, m, source, hist_pos, g_got_sigint, g_got_sigterm, streams_open,
                   exit_status, toEng, fromEng, toDisp, fromDisp, evars, dpc, emit_kind,
                   outstanding, unsignalled, proposed_illegal, malformed_seen, transcript, sd_steps, ack_missing>>
    /\ UNCHANGED <<tvars, line_fate>>
    /\ UNCHANGED req_pending

\* the request-move written without the test of the handle at line 429
RequestEngine_AnyHandle ==
    /\ AtTop
    /\ game_over(bd) = 0
    /\ p_is_engine(bd)
    /\ g_eng_pid' = TopEngPid
    /\ g_disp_pid' = TopDispPid
    /\ g_got_sigchld' = FALSE
    /\ m' = 0
    /\ source' = "engine"
    /\ IF FALSE
       THEN /\ rpc' = "die_term"
            /\ exit_cause' = "no_engine_child"
            /\ UNCHANGED <<toEng, outstanding, unsignalled>>
       ELSE /\ toEng' = Append(toEng, ReqLine)
            /\ outstanding' = Inc(outstanding, "engine")
            /\ unsignalled' = [unsignalled EXCEPT !["engine"] = TRUE]
            /\ rpc' = "req_eng_kill"
            /\ UNCHANGED exit_cause
    /\ UNCHANGED <<cfg, bd, hist_pos, g_got_sigint, g_got_sigterm, streams_open, exit_status,
                   fromEng, toDisp, fromDisp, evars, dpc, emit_kind, proposed_illegal,
                   malformed_seen, transcript, sd_steps, ack_missing>>
    /\ UNCHANGED <<tvars, line_fate>>
    /\ UNCHANGED req_pending

\* game_loop lines 569-571 and request_move_from_engine up to the flushed
\* write of the request-move line
RequestEngine ==
    /\ AtTop
    /\ game_over(bd) = 0
    /\ p_is_engine(bd)
    /\ g_eng_pid' = TopEngPid
    /\ g_disp_pid' = TopDispPid
    /\ g_got_sigchld' = FALSE
    /\ m' = 0
    /\ source' = "engine"
    /\ IF TopEngPid <= 0
       THEN /\ rpc' = "die_term"
            /\ exit_cause' = "no_engine_child"
            /\ UNCHANGED <<toEng, outstanding, unsignalled>>
       ELSE /\ toEng' = Append(toEng, ReqLine)
            /\ outstanding' = Inc(outstanding, "engine")
            /\ unsignalled' = [unsignalled EXCEPT !["engine"] = TRUE]
            /\ rpc' = "req_eng_kill"
            /\ UNCHANGED exit_cause
    /\ UNCHANGED <<cfg, bd, hist_pos, g_got_sigint, g_got_sigterm, streams_open, exit_status,
                   fromEng, toDisp, fromDisp, evars, dpc, emit_kind, proposed_illegal,
                   malformed_seen, transcript, sd_steps, ack_missing>>
    /\ UNCHANGED <<tvars, line_fate>>
    /\ UNCHANGED req_pending

\* game_loop lines 572-575 and request_move_from_display up to the flushed
\* write of the request-move line
RequestDisplay ==
    /\ AtTop
    /\ game_over(bd) = 0
    /\ ~p_is_engine(bd)
    /\ ~cfg.no_display /\ ~cfg.tournament_mode
    /\ g_eng_pid' = TopEngPid
    /\ g_disp_pid' = TopDispPid
    /\ g_got_sigchld' = FALSE
    /\ m' = 0
    /\ source' = "display"
    /\ IF TopDispPid <= 0
       THEN /\ rpc' = "die_term"
            /\ exit_cause' = "no_display_child"
            /\ UNCHANGED <<toDisp, outstanding, unsignalled>>
       ELSE /\ toDisp' = Append(toDisp, ReqLine)
            /\ outstanding' = Inc(outstanding, "display")
            /\ unsignalled' = [unsignalled EXCEPT !["display"] = TRUE]
            /\ rpc' = "req_disp_kill"
            /\ UNCHANGED exit_cause
    /\ UNCHANGED <<cfg, bd, hist_pos, g_got_sigint, g_got_sigterm, streams_open, exit_status,
                   toEng, fromEng, fromDisp, evars, dpc, emit_kind, proposed_illegal,
                   malformed_seen, transcript, sd_steps, ack_missing>>
    /\ UNCHANGED <<tvars, line_fate>>
    /\ UNCHANGED req_pending

\* game_loop lines 576-578: read_move_interactive returns a move, or 0 at the
\* end of the input
LocalInput ==
    /\ AtTop
    /\ game_over(bd) = 0
    /\ ~p_is_engine(bd)
    /\ cfg.no_display \/ cfg.tournament_mode
    /\ g_eng_pid' = TopEngPid
    /\ g_disp_pid' = TopDispPid
    /\ g_got_sigchld' = FALSE
    /\ source' = "local"
    /\ \E mv \in Moves \cup {0} :
          /\ m' = mv
          /\ proposed_illegal' = (proposed_illegal \/ (mv # 0 /\ ~legal_move(mv, bd)))
    /\ rpc' = "validate"
    /\ UNCHANGED <<cfg, bd, hist_pos, g_got_sigint, g_got_sigterm, streams_open, exit_status,
                   toEng, fromEng, toDisp, fromDisp, evars, dpc, emit_kind, outstanding,
                   unsignalled, malformed_seen, hvars>>
    /\ UNCHANGED <<tvars, line_fate>>
    /\ UNCHANGED req_pending

\* request_move_from_engine lines 439-440: kill(g_eng_pid, SIGHUP)
ReqEngKill ==
    /\ rpc = "req_eng_kill"
    /\ engine_signal_handler("SIGHUP")
    /\ g_got_sigchld' = (g_got_sigchld \/ EngineEnded)
    /\ unsignalled' = [unsignalled EXCEPT !["engine"] = FALSE]
    /\ rpc' = "req_eng_read"
    /\ UNCHANGED <<cfg, bd, m, source, hist_pos, g_eng_pid, g_disp_pid, g_got_sigint,
                   g_got_sigterm, streams_open, exit_status, toEng, fromEng, toDisp, fromDisp,
                   dpc, emit_kind, outstanding, proposed_illegal, malformed_seen, hvars>>
    /\ UNCHANGED <<tvars, line_fate>>
    /\ UNCHANGED req_pending

\* request_move_from_engine lines 448-522: one line of the engine is read; a
\* line that parses to no move is skipped, an illegal move is fatal
ReqEngRead ==
    /\ rpc = "req_eng_read"
    /\ fromEng # <<>>
    /\ fromEng' = Tail(fromEng)
    /\ LET mv == read_move_from_pipe(Head(fromEng), bd)
       IN  IF mv = 0
           THEN /\ malformed_seen' = TRUE
                /\ UNCHANGED <<rpc, m, outstanding, proposed_illegal, exit_cause>>
           ELSE /\ m' = mv
                /\ outstanding' = Dec(outstanding, "engine")
                /\ proposed_illegal' = (proposed_illegal \/ ~legal_move(mv, bd))
                /\ rpc' = IF legal_move(mv, bd) THEN "validate" ELSE "die_term"
                /\ exit_cause' = IF legal_move(mv, bd) THEN exit_cause ELSE "illegal_move"
                /\ UNCHANGED malformed_seen
    /\ UNCHANGED <<cfg, bd, source, hist_pos, g_eng_pid, g_disp_pid, g_got_sigint, g_got_sigterm,
                   g_got_sigchld, streams_open, exit_status, toEng, toDisp, fromDisp, evars, dpc,
                   emit_kind, unsignalled,
                   transcript, sd_steps, ack_missing>>
    /\ UNCHANGED <<tvars, line_fate>>
    /\ UNCHANGED req_pending

\* request_move_from_engine lines 524-528: the engine's stream ended without a
\* valid move
ReqEngEof ==
    /\ rpc = "req_eng_read"
    /\ fromEng = <<>>
    /\ epc = "dead"
    /\ g_eng_pid' = ReapedEng
    /\ g_disp_pid' = ReapedDisp
    /\ outstanding' = [outstanding EXCEPT !["engine"] = 0]
    /\ rpc' = "die_term"
    /\ exit_cause' = "no_engine_answer"
    /\ UNCHANGED <<cfg, bd, m, source, hist_pos, g_got_sigint, g_got_sigterm, g_got_sigchld,
                   streams_open, exit_status, toEng, fromEng, toDisp, fromDisp, evars, dpc,
                   emit_kind, unsignalled, proposed_illegal, malformed_seen, transcript, sd_steps, ack_missing>>
    /\ UNCHANGED <<tvars, line_fate>>
    /\ UNCHANGED req_pending

\* request_move_from_display going on to the read with no signal raised
ReqDispKill_NoSignal ==
    /\ rpc = "req_disp_kill"
    /\ UNCHANGED unsignalled
    /\ rpc' = "req_disp_read"
    /\ UNCHANGED <<cfg, bd, m, source, hist_pos, g_eng_pid, g_disp_pid, g_got_sigint,
                   g_got_sigterm, g_got_sigchld, streams_open, exit_status, toEng, fromEng,
                   toDisp, fromDisp, evars, dpc, emit_kind, outstanding, proposed_illegal,
                   malformed_seen, hvars>>
    /\ UNCHANGED <<tvars, line_fate>>
    /\ UNCHANGED req_pending

\* request_move_from_display line 537: kill(g_disp_pid, SIGHUP)
ReqDispKill ==
    /\ rpc = "req_disp_kill"
    /\ unsignalled' = [unsignalled EXCEPT !["display"] = FALSE]
    /\ rpc' = "req_disp_read"
    /\ UNCHANGED <<cfg, bd, m, source, hist_pos, g_eng_pid, g_disp_pid, g_got_sigint,
                   g_got_sigterm, g_got_sigchld, streams_open, exit_status, toEng, fromEng,
                   toDisp, fromDisp, evars, dpc, emit_kind, outstanding, proposed_illegal,
                   malformed_seen, hvars>>
    /\ UNCHANGED <<tvars, line_fate>>
    /\ UNCHANGED req_pending

\* request_move_from_display lines 538-540: the next line of the display is
\* parsed as the move; no move is fatal
ReqDispRead ==
    /\ rpc = "req_disp_read"
    /\ fromDisp # <<>>
    /\ fromDisp' = Tail(fromDisp)
    /\ outstanding' = Dec(outstanding, "display")
    /\ LET mv == read_move_from_pipe(Head(fromDisp), bd)
       IN  /\ m' = mv
           /\ malformed_seen' = (malformed_seen \/ mv = 0)
           /\ proposed_illegal' = (proposed_illegal \/ (mv # 0 /\ ~legal_move(mv, bd)))
           /\ rpc' = IF mv = 0 THEN "die_term" ELSE "validate"
           /\ exit_cause' = IF mv = 0 THEN "display_eof" ELSE exit_cause
    /\ UNCHANGED <<cfg, bd, source, hist_pos, g_eng_pid, g_disp_pid, g_got_sigint, g_got_sigterm,
                   g_got_sigchld, streams_open, exit_status, toEng, fromEng, toDisp, evars, dpc,
                   emit_kind, unsignalled,
                   transcript, sd_steps, ack_missing>>
    /\ UNCHANGED <<tvars, line_fate>>
    /\ UNCHANGED req_pending

\* request_move_from_display line 539: the display's stream ended
ReqDispEof ==
    /\ rpc = "req_disp_read"
    /\ fromDisp = <<>>
    /\ dpc = "dead"
    /\ outstanding' = [outstanding EXCEPT !["display"] = 0]
    /\ rpc' = "die_term"
    /\ exit_cause' = "display_eof"
    /\ UNCHANGED <<cfg, bd, m, source, hist_pos, g_eng_pid, g_disp_pid, g_got_sigint,
                   g_got_sigterm, g_got_sigchld, streams_open, exit_status, toEng, fromEng,
                   toDisp, fromDisp, evars, dpc, emit_kind, unsignalled, proposed_illegal,
                   malformed_seen, transcript, sd_steps, ack_missing>>
    /\ UNCHANGED <<tvars, line_fate>>
    /\ UNCHANGED req_pending

\* game_loop without the legality check of lines 585-589: every non-zero move
\* goes on to apply()
Validate_NoCheck ==
    /\ rpc = "validate"
    /\ IF m = 0
       THEN /\ rpc' = "sd_term"
            /\ exit_cause' = "end_of_input"
            /\ UNCHANGED <<toDisp, outstanding, unsignalled>>
       ELSE /\ rpc' = "apply"
            /\ UNCHANGED exit_cause
            /\ IF ~cfg.no_display /\ source # "display"
               THEN send_display_move(bd, player_to_move(bd), m, source, "loop")
               ELSE UNCHANGED <<toDisp, outstanding, unsignalled>>
    /\ UNCHANGED <<cfg, bd, m, source, hist_pos, g_eng_pid, g_disp_pid, g_got_sigint,
                   g_got_sigterm, g_got_sigchld, streams_open, exit_status, toEng, fromEng,
                   fromDisp, evars, dpc, emit_kind, proposed_illegal, malformed_seen, transcript, sd_steps, ack_missing>>
    /\ UNCHANGED <<tvars, line_fate>>
    /\ UNCHANGED req_pending

\* game_loop with the display shown the move ahead of the legality check
\* (lines 592-593 moved above line 585)
Validate_ShowFirst ==
    /\ rpc = "validate"
    /\ IF m = 0
       THEN /\ rpc' = "sd_term"
            /\ exit_cause' = "end_of_input"
            /\ UNCHANGED <<toDisp, outstanding, unsignalled>>
       ELSE /\ rpc' = (IF legal_move(m, bd) THEN "apply" ELSE "die_term")
            /\ exit_cause' = (IF legal_move(m, bd) THEN exit_cause ELSE "illegal_move")
            /\ IF ~cfg.no_display /\ source # "display"
               THEN send_display_move(bd, player_to_move(bd), m, source, "loop")
               ELSE UNCHANGED <<toDisp, outstanding, unsignalled>>
    /\ UNCHANGED <<cfg, bd, m, source, hist_pos, g_eng_pid, g_disp_pid, g_got_sigint,
                   g_got_sigterm, g_got_sigchld, streams_open, exit_status, toEng, fromEng,
                   fromDisp, evars, dpc, emit_kind, proposed_illegal, malformed_seen, transcript, sd_steps, ack_missing>>
    /\ UNCHANGED <<tvars, line_fate>>
    /\ UNCHANGED req_pending

\* game_loop lines 583-593: 0 leaves the loop, an illegal move is fatal, a legal
\* one is shown on the display unless the display produced it
Validate ==
    /\ rpc = "validate"
    /\ IF m = 0
       THEN /\ rpc' = "sd_term"
            /\ exit_cause' = "end_of_input"
            /\ UNCHANGED <<toDisp, outstanding, unsignalled>>
       ELSE IF ~legal_move(m, bd)
       THEN /\ rpc' = "die_term"
            /\ exit_cause' = "illegal_move"
            /\ UNCHANGED <<toDisp, outstanding, unsignalled>>
       ELSE /\ rpc' = "apply"
            /\ UNCHANGED exit_cause
            /\ IF ~cfg.no_display /\ source # "display"
               THEN send_display_move(bd, player_to_move(bd), m, source, "loop")
               ELSE UNCHANGED <<toDisp, outstanding, unsignalled>>
    /\ UNCHANGED <<cfg, bd, m, source, hist_pos, g_eng_pid, g_disp_pid, g_got_sigint,
                   g_got_sigterm, g_got_sigchld, streams_open, exit_status, toEng, fromEng,
                   fromDisp, evars, dpc, emit_kind, proposed_illegal, malformed_seen, transcript, sd_steps, ack_missing>>
    /\ UNCHANGED <<tvars, line_fate>>
    /\ UNCHANGED req_pending

\* write_transcript_move(bp, p, mv): the entry's turn number is computed from
\* the half-move number of the board it is handed; the second side's entry
\* carries the "..." marker
write_transcript_move(b, p, mv) ==
    [turn |-> (move_number(b) \div 2) + 1, side |-> p, dots |-> (p # X), text |-> mv]

\* game_loop lines 595-604: apply(bp, m), then the transcript entry, written
\* against the board after the move (the transcript is taken as enabled, -o)
ApplyMove ==
    /\ rpc = "apply"
    /\ bd' = apply(bd, m)
    /\ rpc' = "notify"
    /\ transcript' = Append(transcript, write_transcript_move(bd', player_to_move(bd), m))
    /\ UNCHANGED <<cfg, m, source, hist_pos, g_eng_pid, g_disp_pid, g_got_sigint, g_got_sigterm,
                   g_got_sigchld, streams_open, exit_status, toEng, fromEng, toDisp, fromDisp,
                   evars, dpc, emit_kind, outstanding, unsignalled, proposed_illegal,
                   malformed_seen, sd_steps, ack_missing, exit_cause>>
    /\ UNCHANGED <<tvars, line_fate>>
    /\ UNCHANGED req_pending

\* notify_engine_of_opponent_move lines 397-401, for the mover of the move
\* just applied to b
mover_is_opponent(mover) ==
    \/ mover = X /\ cfg.play_black_engine
    \/ mover = O /\ cfg.play_white_engine

\* the side that made the last move of b
last_mover(b) == IF player_to_move(b) = X THEN O ELSE X

\* notify_engine_of_opponent_move lines 394-411: the inform-move line, printed
\* against the board after the move
NotifyEngine ==
    /\ rpc = "notify"
    /\ IF g_eng_pid <= 0 \/ ~mover_is_opponent(last_mover(bd))
       THEN /\ rpc' = "loop_top"
            /\ UNCHANGED <<toEng, outstanding, unsignalled>>
       ELSE /\ toEng' = Append(toEng, InformLine(player_to_move(bd), m, Len(bd) - 1,
                                                 source, "loop"))
            /\ outstanding' = Inc(outstanding, "engine")
            /\ unsignalled' = [unsignalled EXCEPT !["engine"] = TRUE]
            /\ rpc' = "notify_kill"
    /\ UNCHANGED <<cfg, bd, m, source, hist_pos, g_eng_pid, g_disp_pid, g_got_sigint,
                   g_got_sigterm, g_got_sigchld, streams_open, exit_status, fromEng, toDisp,
                   fromDisp, evars, dpc, emit_kind, proposed_illegal, malformed_seen, hvars>>
    /\ UNCHANGED <<tvars, line_fate>>
    /\ UNCHANGED req_pending

\* notify_engine_of_opponent_move lines 413-416: kill(g_eng_pid, SIGHUP)
NotifyKill ==
    /\ rpc = "notify_kill"
    /\ engine_signal_handler("SIGHUP")
    /\ g_got_sigchld' = (g_got_sigchld \/ EngineEnded)
    /\ unsignalled' = [unsignalled EXCEPT !["engine"] = FALSE]
    /\ rpc' = "notify_read"
    /\ UNCHANGED <<cfg, bd, m, source, hist_pos, g_eng_pid, g_disp_pid, g_got_sigint,
                   g_got_sigterm, streams_open, exit_status, toEng, fromEng, toDisp, fromDisp,
                   dpc, emit_kind, outstanding, proposed_illegal, malformed_seen, hvars>>
    /\ UNCHANGED <<tvars, line_fate>>
    /\ UNCHANGED req_pending

\* notify_engine_of_opponent_move with a missing acknowledgement made fatal
NotifyRead_AckRequired ==
    /\ rpc = "notify_read"
    /\ \/ /\ fromEng # <<>>
          /\ fromEng' = Tail(fromEng)
          /\ outstanding' = Dec(outstanding, "engine")
          /\ rpc' = "loop_top"
          /\ UNCHANGED ack_missing
       \/ /\ fromEng = <<>>
          /\ epc = "dead"
          /\ outstanding' = [outstanding EXCEPT !["engine"] = 0]
          /\ ack_missing' = TRUE
          /\ rpc' = "die_term"
          /\ UNCHANGED fromEng
    /\ UNCHANGED <<cfg, bd, m, source, hist_pos, g_eng_pid, g_disp_pid, g_got_sigint,
                   g_got_sigterm, g_got_sigchld, streams_open, exit_status, toEng, toDisp,
                   fromDisp, evars, dpc, emit_kind, unsignalled, proposed_illegal, malformed_seen, transcript, sd_steps, exit_cause>>
    /\ UNCHANGED <<tvars, line_fate>>
    /\ UNCHANGED req_pending

\* notify_engine_of_opponent_move lines 418-425: one line is read as the
\* acknowledgement, or the stream has ended
NotifyRead ==
    /\ rpc = "notify_read"
    /\ \/ /\ fromEng # <<>>
          /\ fromEng' = Tail(fromEng)
          /\ outstanding' = Dec(outstanding, "engine")
          /\ UNCHANGED ack_missing
       \/ /\ fromEng = <<>>
          /\ epc = "dead"
          /\ outstanding' = [outstanding EXCEPT !["engine"] = 0]
          /\ ack_missing' = TRUE
          /\ UNCHANGED fromEng
    /\ rpc' = "loop_top"
    /\ UNCHANGED <<cfg, bd, m, source, hist_pos, g_eng_pid, g_disp_pid, g_got_sigint,
                   g_got_sigterm, g_got_sigchld, streams_open, exit_status, toEng, toDisp,
                   fromDisp, evars, dpc, emit_kind, unsignalled, proposed_illegal, malformed_seen, transcript, sd_steps, exit_cause>>
    /\ UNCHANGED <<tvars, line_fate>>
    /\ UNCHANGED req_pending

\* ccheck lines 643-644: SIGTERM to every child whose handle is set
ShutdownTerm ==
    /\ rpc = "sd_term"
    /\ IF g_eng_pid > 0 THEN EngineTerminated ELSE UNCHANGED evars
    /\ IF g_disp_pid > 0 THEN DisplayTerminated ELSE UNCHANGED dpc
    /\ g_got_sigchld' = (g_got_sigchld \/ ChildEnded)
    /\ rpc' = "sd_close"
    /\ sd_steps' = Append(sd_steps, "term")
    /\ UNCHANGED <<cfg, bd, m, source, hist_pos, g_eng_pid, g_disp_pid, g_got_sigint,
                   g_got_sigterm, streams_open, exit_status, toEng, fromEng, toDisp, fromDisp,
                   emit_kind, outstanding, unsignalled, proposed_illegal, malformed_seen, transcript, ack_missing, exit_cause>>
    /\ UNCHANGED <<tvars, line_fate>>
    /\ UNCHANGED req_pending

\* ccheck lines 646-650: the streams are closed
ShutdownClose ==
    /\ rpc = "sd_close"
    /\ streams_open' = FALSE
    /\ rpc' = "sd_reap"
    /\ sd_steps' = Append(sd_steps, "close")
    /\ UNCHANGED <<cfg, bd, m, source, hist_pos, g_eng_pid, g_disp_pid, g_got_sigint,
                   g_got_sigterm, g_got_sigchld, exit_status, toEng, fromEng, toDisp, fromDisp,
                   evars, dpc, emit_kind, outstanding, unsignalled, proposed_illegal,
                   malformed_seen, transcript, ack_missing, exit_cause>>
    /\ UNCHANGED <<tvars, line_fate>>
    /\ UNCHANGED req_pending

\* ccheck lines 652-656: one non-blocking reap, then EXIT_SUCCESS
ShutdownReap ==
    /\ rpc = "sd_reap"
    /\ g_got_sigchld' = TRUE
    /\ g_eng_pid' = ReapedEng
    /\ g_disp_pid' = ReapedDisp
    /\ exit_status' = "success"
    /\ rpc' = "exited"
    /\ sd_steps' = Append(sd_steps, "reap")
    /\ UNCHANGED <<cfg, bd, m, source, hist_pos, g_got_sigint, g_got_sigterm, streams_open,
                   toEng, fromEng, toDisp, fromDisp, evars, dpc, emit_kind, outstanding,
                   unsignalled, proposed_illegal, malformed_seen, transcript, ack_missing, exit_cause>>
    /\ UNCHANGED <<tvars, line_fate>>
    /\ UNCHANGED req_pending

\* die lines 116-117: SIGTERM to every child whose handle is set
DieTerm ==
    /\ rpc = "die_term"
    /\ IF g_eng_pid > 0 THEN EngineTerminated ELSE UNCHANGED evars
    /\ IF g_disp_pid > 0 THEN DisplayTerminated ELSE UNCHANGED dpc
    /\ g_got_sigchld' = (g_got_sigchld \/ ChildEnded)
    /\ rpc' = "die_close"
    /\ sd_steps' = Append(sd_steps, "term")
    /\ UNCHANGED <<cfg, bd, m, source, hist_pos, g_eng_pid, g_disp_pid, g_got_sigint,
                   g_got_sigterm, streams_open, exit_status, toEng, fromEng, toDisp, fromDisp,
                   emit_kind, outstanding, unsignalled, proposed_illegal, malformed_seen, transcript, ack_missing, exit_cause>>
    /\ UNCHANGED <<tvars, line_fate>>
    /\ UNCHANGED req_pending

\* die lines 119-123: the streams are closed
DieClose ==
    /\ rpc = "die_close"
    /\ streams_open' = FALSE
    /\ rpc' = "die_kill"
    /\ sd_steps' = Append(sd_steps, "close")
    /\ UNCHANGED <<cfg, bd, m, source, hist_pos, g_eng_pid, g_disp_pid, g_got_sigint,
                   g_got_sigterm, g_got_sigchld, exit_status, toEng, fromEng, toDisp, fromDisp,
                   evars, dpc, emit_kind, outstanding, unsignalled, proposed_illegal,
                   malformed_seen, transcript, ack_missing, exit_cause>>
    /\ UNCHANGED <<tvars, line_fate>>
    /\ UNCHANGED req_pending

\* die lines 125-126: after the grace period, SIGKILL to every child whose handle is set
DieKill ==
    /\ rpc = "die_kill"
    /\ IF g_eng_pid > 0 THEN EngineTerminated ELSE UNCHANGED evars
    /\ IF g_disp_pid > 0 THEN DisplayTerminated ELSE UNCHANGED dpc
    /\ g_got_sigchld' = (g_got_sigchld \/ ChildEnded)
    /\ rpc' = "die_reap"
    /\ sd_steps' = Append(sd_steps, "wait_kill")
    /\ UNCHANGED <<cfg, bd, m, source, hist_pos, g_eng_pid, g_disp_pid, g_got_sigint,
                   g_got_sigterm, streams_open, exit_status, toEng, fromEng, toDisp, fromDisp,
                   emit_kind, outstanding, unsignalled, proposed_illegal, malformed_seen, transcript, ack_missing, exit_cause>>
    /\ UNCHANGED <<tvars, line_fate>>
    /\ UNCHANGED req_pending

\* die ending with EXIT_SUCCESS
DieReap_Success ==
    /\ rpc = "die_reap"
    /\ exit_status' = "success"
    /\ rpc' = "exited"
    /\ sd_steps' = Append(sd_steps, "reap")
    /\ UNCHANGED <<cfg, bd, m, source, hist_pos, g_eng_pid, g_disp_pid, g_got_sigint,
                   g_got_sigterm, g_got_sigchld, streams_open, toEng, fromEng, toDisp, fromDisp,
                   evars, dpc, emit_kind, outstanding, unsignalled, proposed_illegal,
                   malformed_seen, transcript, ack_missing, exit_cause>>
    /\ UNCHANGED <<tvars, line_fate>>
    /\ UNCHANGED req_pending

\* die lines 128-129: the children are reaped, then EXIT_FAILURE
DieReap ==
    /\ rpc = "die_reap"
    /\ exit_status' = "failure"
    /\ rpc' = "exited"
    /\ sd_steps' = Append(sd_steps, "reap")
    /\ UNCHANGED <<cfg, bd, m, source, hist_pos, g_eng_pid, g_disp_pid, g_got_sigint,
                   g_got_sigterm, g_got_sigchld, streams_open, toEng, fromEng, toDisp, fromDisp,
                   evars, dpc, emit_kind, outstanding, unsignalled, proposed_illegal,
                   malformed_seen, transcript, ack_missing, exit_cause>>
    /\ UNCHANGED <<tvars, line_fate>>
    /\ UNCHANGED req_pending

\* on_sigint, on_sigterm: SIGINT or SIGTERM from outside is flagged.  The
\* handlers only set a flag that line 549 alone reads, and SA_RESTART
\* lets no call return early, so a signal is taken here where the
\* orchestrator next tests the flags or is blocked in a read
EnvSignal ==
    /\ \/ rpc = "loop_top"
       \/ rpc \in {"req_eng_read", "notify_read"} /\ fromEng = <<>>
       \/ rpc = "req_disp_read" /\ fromDisp = <<>>
    /\ ~g_got_sigint /\ ~g_got_sigterm
    /\ \/ /\ g_got_sigint' = TRUE
          /\ UNCHANGED g_got_sigterm
       \/ /\ g_got_sigterm' = TRUE
          /\ UNCHANGED g_got_sigint
    /\ UNCHANGED <<cfg, rpc, bd, m, source, hist_pos, g_eng_pid, g_disp_pid, g_got_sigchld,
                   streams_open, exit_status, toEng, fromEng, toDisp, fromDisp, evars, dpc,
                   emit_kind, outstanding, unsignalled, proposed_illegal, malformed_seen, hvars>>
    /\ UNCHANGED <<tvars, line_fate>>
    /\ UNCHANGED req_pending

(***************************************************************************)
(* The engine (engine.c).                                                  *)
(***************************************************************************)
\* engine lines 83-107: the handlers are installed
EngineBoot ==
    /\ epc = "boot"
    /\ epc' = "top"
    /\ UNCHANGED <<cfg, rpc, bd, m, source, hist_pos, g_eng_pid, g_disp_pid, g_got_sigint,
                   g_got_sigterm, g_got_sigchld, streams_open, exit_status, toEng, fromEng,
                   toDisp, fromDisp, ebd, sighup_received, sigalrm_received, search_jmpbuf_valid,
                   search_jmpbuf, principal_var, depth, current_depth, best_depth,
                   searching_on_opponent_time, first_wait, timer_armed, dpc, emit_kind,
                   outstanding, unsignalled, proposed_illegal, malformed_seen, hvars>>
    /\ UNCHANGED <<tvars, line_fate>>
    /\ UNCHANGED req_pending

\* engine lines 108-114 and 164-183: the test of the wakeup flag; a set flag
\* leads to lines 189-192; on the first wait select() looks for input
EngineTop ==
    /\ epc = "top"
    /\ IF sighup_received
       THEN /\ sighup_received' = FALSE
            /\ searching_on_opponent_time' = FALSE
            /\ epc' = "read_cmd"
            /\ UNCHANGED <<depth, first_wait>>
       ELSE IF searching_on_opponent_time /\ best_depth < MAXPLY
       THEN /\ depth' = current_depth
            /\ epc' = "opp_loop"
            /\ UNCHANGED <<sighup_received, searching_on_opponent_time, first_wait>>
       ELSE /\ first_wait' = FALSE
            /\ sighup_received' = (first_wait /\ toEng # <<>>)
            /\ epc' = IF first_wait /\ toEng # <<>> THEN "top" ELSE "pre_pause"
            /\ UNCHANGED <<depth, searching_on_opponent_time>>
    /\ UNCHANGED <<cfg, rpc, bd, m, source, hist_pos, g_eng_pid, g_disp_pid, g_got_sigint,
                   g_got_sigterm, g_got_sigchld, streams_open, exit_status, toEng, fromEng,
                   toDisp, fromDisp, ebd, sigalrm_received, search_jmpbuf_valid, search_jmpbuf,
                   principal_var, current_depth, best_depth, timer_armed, dpc, emit_kind,
                   outstanding, unsignalled, proposed_illegal, malformed_seen, hvars>>
    /\ UNCHANGED <<tvars, line_fate>>
    /\ UNCHANGED req_pending

\* engine line 185: pause() is entered
EnginePause ==
    /\ epc = "pre_pause"
    /\ epc' = "pause"
    /\ UNCHANGED <<cfg, rpc, bd, m, source, hist_pos, g_eng_pid, g_disp_pid, g_got_sigint,
                   g_got_sigterm, g_got_sigchld, streams_open, exit_status, toEng, fromEng,
                   toDisp, fromDisp, ebd, sighup_received, sigalrm_received, search_jmpbuf_valid,
                   search_jmpbuf, principal_var, depth, current_depth, best_depth,
                   searching_on_opponent_time, first_wait, timer_armed, dpc, emit_kind,
                   outstanding, unsignalled, proposed_illegal, malformed_seen, hvars>>
    /\ UNCHANGED <<tvars, line_fate>>
    /\ UNCHANGED req_pending

\* engine lines 189-192, reached from pause() or from the search on the opponent's time
EngineAfterWait ==
    /\ epc = "after_wait"
    /\ IF sighup_received
       THEN /\ sighup_received' = FALSE
            /\ searching_on_opponent_time' = FALSE
            /\ epc' = "read_cmd"
       ELSE /\ epc' = "top"
            /\ UNCHANGED <<sighup_received, searching_on_opponent_time>>
    /\ UNCHANGED <<cfg, rpc, bd, m, source, hist_pos, g_eng_pid, g_disp_pid, g_got_sigint,
                   g_got_sigterm, g_got_sigchld, streams_open, exit_status, toEng, fromEng,
                   toDisp, fromDisp, ebd, sigalrm_received, search_jmpbuf_valid, search_jmpbuf,
                   principal_var, depth, current_depth, best_depth, first_wait, timer_armed, dpc,
                   emit_kind, outstanding, unsignalled, proposed_illegal, malformed_seen, hvars>>
    /\ UNCHANGED <<tvars, line_fate>>
    /\ UNCHANGED req_pending

\* engine lines 195-242: fgets returns a request-move line; the budget, the
\* one-shot timer (armed when time remains) and the start depth
EngineReadRequest ==
    /\ epc = "read_cmd"
    /\ toEng # <<>>
    /\ Head(toEng).k = "req"
    /\ toEng' = Tail(toEng)
    /\ \E limit \in (IF cfg.avgtime > 0 THEN {0, 1} ELSE {0}) :
          /\ timer_armed' = (limit > 0)
          /\ sigalrm_received' = (sigalrm_received /\ limit = 0)
    /\ current_depth' = IF current_depth > 1 /\ best_depth = 0 THEN 1 ELSE current_depth
    /\ depth' = current_depth'
    /\ epc' = "req_loop"
    /\ UNCHANGED <<cfg, rpc, bd, m, source, hist_pos, g_eng_pid, g_disp_pid, g_got_sigint,
                   g_got_sigterm, g_got_sigchld, streams_open, exit_status, fromEng, toDisp,
                   fromDisp, ebd, sighup_received, search_jmpbuf_valid, search_jmpbuf,
                   principal_var, best_depth, searching_on_opponent_time, first_wait, dpc,
                   emit_kind, outstanding, unsignalled, proposed_illegal, malformed_seen, hvars>>
    /\ UNCHANGED <<tvars, line_fate>>
    /\ req_pending' = TRUE

\* engine lines 244-263: head of the deepening loop; it ends at the ceiling, on
\* a flagged SIGHUP or when the time left is less than the depth's estimate
EngineReqLoop ==
    /\ epc = "req_loop"
    /\ \/ /\ depth > MAXPLY \/ sighup_received
          /\ epc' = "req_emit"
          /\ UNCHANGED search_jmpbuf_valid
       \/ /\ depth <= MAXPLY /\ ~sighup_received
          /\ cfg.avgtime > 0 /\ depth > 1
          /\ epc' = "req_emit"
          /\ UNCHANGED search_jmpbuf_valid
       \/ /\ depth <= MAXPLY /\ ~sighup_received
          /\ search_jmpbuf_valid' = TRUE
          /\ epc' = "req_setjmp"
    /\ UNCHANGED <<cfg, rpc, bd, m, source, hist_pos, g_eng_pid, g_disp_pid, g_got_sigint,
                   g_got_sigterm, g_got_sigchld, streams_open, exit_status, toEng, fromEng,
                   toDisp, fromDisp, ebd, sighup_received, sigalrm_received, search_jmpbuf,
                   principal_var, depth, current_depth, best_depth, searching_on_opponent_time,
                   first_wait, timer_armed, dpc, emit_kind, outstanding, unsignalled,
                   proposed_illegal, malformed_seen, hvars>>
    /\ UNCHANGED <<tvars, line_fate>>
    /\ UNCHANGED req_pending

\* engine line 264: sigsetjmp fills the buffer
EngineReqSetjmp ==
    /\ epc = "req_setjmp"
    /\ search_jmpbuf' = [at |-> "req", best_depth |-> best_depth]
    /\ epc' = "req_search"
    /\ UNCHANGED <<cfg, rpc, bd, m, source, hist_pos, g_eng_pid, g_disp_pid, g_got_sigint,
                   g_got_sigterm, g_got_sigchld, streams_open, exit_status, toEng, fromEng,
                   toDisp, fromDisp, ebd, sighup_received, sigalrm_received, search_jmpbuf_valid,
                   principal_var, depth, current_depth, best_depth, searching_on_opponent_time,
                   first_wait, timer_armed, dpc, emit_kind, outstanding, unsignalled,
                   proposed_illegal, malformed_seen, hvars>>
    /\ UNCHANGED <<tvars, line_fate>>
    /\ UNCHANGED req_pending

\* engine lines 271-316: bestmove completes the depth
EngineReqSearch ==
    /\ epc = "req_search"
    /\ principal_var' \in bestmove(ebd, depth)
    /\ search_jmpbuf_valid' = FALSE
    /\ best_depth' = depth
    /\ IF ScoreDecided(ebd, depth) \/ sighup_received \/ sigalrm_received
       THEN /\ epc' = "req_emit"
            /\ UNCHANGED depth
       ELSE /\ epc' = "req_loop"
            /\ depth' = depth + 1
    /\ UNCHANGED <<cfg, rpc, bd, m, source, hist_pos, g_eng_pid, g_disp_pid, g_got_sigint,
                   g_got_sigterm, g_got_sigchld, streams_open, exit_status, toEng, fromEng,
                   toDisp, fromDisp, ebd, sighup_received, sigalrm_received, search_jmpbuf,
                   current_depth, searching_on_opponent_time, first_wait, timer_armed, dpc,
                   emit_kind, outstanding, unsignalled, proposed_illegal, malformed_seen, hvars>>
    /\ UNCHANGED tvars
    /\ line_fate' = "searched"
    /\ UNCHANGED req_pending

\* what the line of move mv is, on the board b it is emitted for
EmitKind(mv, b) == IF mv = 0 THEN "empty" ELSE IF legal_move(mv, b) THEN "legal" ELSE "illegal"

\* the emission without the reset of best_depth of line 352
EngineReqEmit_KeepDepth ==
    /\ epc = "req_emit"
    /\ timer_armed' = FALSE
    /\ IF best_depth >= 1
       THEN UNCHANGED <<principal_var, depth>>
       ELSE /\ depth' = 1
            /\ principal_var' \in bestmove(ebd, 1)
    /\ fromEng' = Append(fromEng, print_move(ebd, principal_var'[1]))
    /\ emit_kind' = EmitKind(principal_var'[1], ebd)
    /\ ebd' = apply(ebd, principal_var'[1])
    /\ current_depth' = 1
    /\ UNCHANGED best_depth
    /\ epc' = "top"
    /\ UNCHANGED <<cfg, rpc, bd, m, source, hist_pos, g_eng_pid, g_disp_pid, g_got_sigint,
                   g_got_sigterm, g_got_sigchld, streams_open, exit_status, toEng, toDisp,
                   fromDisp, sighup_received, sigalrm_received, search_jmpbuf_valid,
                   search_jmpbuf, searching_on_opponent_time, first_wait, dpc, outstanding,
                   unsignalled, proposed_illegal, malformed_seen, hvars>>
    /\ UNCHANGED tvars
    /\ line_fate' = "searched"
    /\ req_pending' = FALSE

\* engine lines 320-377: the timer is cancelled and the head of the best line
\* is printed and applied; with no completed depth, after a depth-1 search
EngineReqEmit ==
    /\ epc = "req_emit"
    /\ timer_armed' = FALSE
    /\ IF best_depth >= 1
       THEN UNCHANGED <<principal_var, depth>>
       ELSE /\ depth' = 1
            /\ principal_var' \in bestmove(ebd, 1)
    /\ fromEng' = Append(fromEng, print_move(ebd, principal_var'[1]))
    /\ emit_kind' = EmitKind(principal_var'[1], ebd)
    /\ ebd' = apply(ebd, principal_var'[1])
    /\ current_depth' = 1
    /\ best_depth' = 0
    /\ epc' = "top"
    /\ UNCHANGED <<cfg, rpc, bd, m, source, hist_pos, g_eng_pid, g_disp_pid, g_got_sigint,
                   g_got_sigterm, g_got_sigchld, streams_open, exit_status, toEng, toDisp,
                   fromDisp, sighup_received, sigalrm_received, search_jmpbuf_valid,
                   search_jmpbuf, searching_on_opponent_time, first_wait, dpc, outstanding,
                   unsignalled, proposed_illegal, malformed_seen, hvars>>
    /\ UNCHANGED tvars
    /\ line_fate' = "searched"
    /\ req_pending' = FALSE

\* engine lines 382-386: the text after '>' is parsed against the board
InformedMove(line, b) ==
    read_move_from_pipe([k |-> "move", side |-> line.side, text |-> line.text], b)

\* engine lines 404-406: the best line shifted left by one ply
ShiftedPV(pv, bdepth) ==
    [i \in 1..MAXPLY |-> IF i <= bdepth - 1 THEN pv[i + 1] ELSE pv[i]]

\* the inform-move branch resuming one ply shallower without shifting the line
EngineReadInform_NoShift ==
    /\ epc = "read_cmd"
    /\ toEng # <<>>
    /\ Head(toEng).k = "inform"
    /\ toEng' = Tail(toEng)
    /\ LET mv == InformedMove(Head(toEng), ebd)
       IN  IF mv = 0
           THEN UNCHANGED <<ebd, principal_var, current_depth, best_depth, line_fate>>
           ELSE /\ ebd' = apply(ebd, mv)
                /\ IF best_depth >= 1 /\ principal_var[1] = mv /\ best_depth > 1
                   THEN /\ UNCHANGED principal_var
                        /\ current_depth' = best_depth - 1
                        /\ best_depth' = best_depth - 1
                        /\ line_fate' = "carried"
                   ELSE /\ current_depth' = 1
                        /\ best_depth' = 0
                        /\ line_fate' = IF best_depth >= 1 /\ principal_var[1] # mv
                                        THEN "discarded" ELSE line_fate
                        /\ UNCHANGED principal_var
    /\ fromEng' = Append(fromEng, OkLine)
    /\ searching_on_opponent_time' = TRUE
    /\ epc' = "top"
    /\ UNCHANGED <<cfg, rpc, bd, m, source, hist_pos, g_eng_pid, g_disp_pid, g_got_sigint,
                   g_got_sigterm, g_got_sigchld, streams_open, exit_status, toDisp, fromDisp,
                   sighup_received, sigalrm_received, search_jmpbuf_valid, search_jmpbuf, depth,
                   first_wait, timer_armed, dpc, emit_kind, outstanding, unsignalled,
                   proposed_illegal, malformed_seen, hvars>>
    /\ UNCHANGED tvars
    /\ UNCHANGED req_pending

\* engine lines 195-206 and 378-425: fgets returns an inform-move line; the move
\* is applied when it parses, the best line is carried over or dropped, the
\* acknowledgement is written
EngineReadInform ==
    /\ epc = "read_cmd"
    /\ toEng # <<>>
    /\ Head(toEng).k = "inform"
    /\ toEng' = Tail(toEng)
    /\ LET mv == InformedMove(Head(toEng), ebd)
       IN  IF mv = 0
           THEN UNCHANGED <<ebd, principal_var, current_depth, best_depth, line_fate>>
           ELSE /\ ebd' = apply(ebd, mv)
                /\ IF best_depth >= 1 /\ principal_var[1] = mv /\ best_depth > 1
                   THEN /\ principal_var' = ShiftedPV(principal_var, best_depth)
                        /\ current_depth' = best_depth - 1
                        /\ best_depth' = best_depth - 1
                        /\ line_fate' = "carried"
                   ELSE /\ current_depth' = 1
                        /\ best_depth' = 0
                        /\ line_fate' = IF best_depth >= 1 /\ principal_var[1] # mv
                                        THEN "discarded" ELSE line_fate
                        /\ UNCHANGED principal_var
    /\ fromEng' = Append(fromEng, OkLine)
    /\ searching_on_opponent_time' = TRUE
    /\ epc' = "top"
    /\ UNCHANGED <<cfg, rpc, bd, m, source, hist_pos, g_eng_pid, g_disp_pid, g_got_sigint,
                   g_got_sigterm, g_got_sigchld, streams_open, exit_status, toDisp, fromDisp,
                   sighup_received, sigalrm_received, search_jmpbuf_valid, search_jmpbuf, depth,
                   first_wait, timer_armed, dpc, emit_kind, outstanding, unsignalled,
                   proposed_illegal, malformed_seen, hvars>>
    /\ UNCHANGED tvars
    /\ UNCHANGED req_pending

\* engine lines 115-120: head of the deepening loop on the opponent's time
EngineOppLoop ==
    /\ epc = "opp_loop"
    /\ \/ /\ depth > MAXPLY \/ sighup_received
          /\ epc' = "after_wait"
          /\ UNCHANGED search_jmpbuf_valid
       \/ /\ depth <= MAXPLY /\ ~sighup_received
          /\ search_jmpbuf_valid' = TRUE
          /\ epc' = "opp_setjmp"
    /\ UNCHANGED <<cfg, rpc, bd, m, source, hist_pos, g_eng_pid, g_disp_pid, g_got_sigint,
                   g_got_sigterm, g_got_sigchld, streams_open, exit_status, toEng, fromEng,
                   toDisp, fromDisp, ebd, sighup_received, sigalrm_received, search_jmpbuf,
                   principal_var, depth, current_depth, best_depth, searching_on_opponent_time,
                   first_wait, timer_armed, dpc, emit_kind, outstanding, unsignalled,
                   proposed_illegal, malformed_seen, hvars>>
    /\ UNCHANGED <<tvars, line_fate>>
    /\ UNCHANGED req_pending

\* engine line 121: sigsetjmp fills the buffer
EngineOppSetjmp ==
    /\ epc = "opp_setjmp"
    /\ search_jmpbuf' = [at |-> "opp", best_depth |-> best_depth]
    /\ epc' = "opp_search"
    /\ UNCHANGED <<cfg, rpc, bd, m, source, hist_pos, g_eng_pid, g_disp_pid, g_got_sigint,
                   g_got_sigterm, g_got_sigchld, streams_open, exit_status, toEng, fromEng,
                   toDisp, fromDisp, ebd, sighup_received, sigalrm_received, search_jmpbuf_valid,
                   principal_var, depth, current_depth, best_depth, searching_on_opponent_time,
                   first_wait, timer_armed, dpc, emit_kind, outstanding, unsignalled,
                   proposed_illegal, malformed_seen, hvars>>
    /\ UNCHANGED <<tvars, line_fate>>
    /\ UNCHANGED req_pending

\* engine lines 127-163: bestmove completes the depth
EngineOppSearch ==
    /\ epc = "opp_search"
    /\ principal_var' \in bestmove(ebd, depth)
    /\ search_jmpbuf_valid' = FALSE
    /\ best_depth' = depth
    /\ IF ScoreDecided(ebd, depth) \/ sighup_received
       THEN /\ epc' = "after_wait"
            /\ UNCHANGED depth
       ELSE /\ epc' = "opp_loop"
            /\ depth' = depth + 1
    /\ UNCHANGED <<cfg, rpc, bd, m, source, hist_pos, g_eng_pid, g_disp_pid, g_got_sigint,
                   g_got_sigterm, g_got_sigchld, streams_open, exit_status, toEng, fromEng,
                   toDisp, fromDisp, ebd, sighup_received, sigalrm_received, search_jmpbuf,
                   current_depth, searching_on_opponent_time, first_wait, timer_armed, dpc,
                   emit_kind, outstanding, unsignalled, proposed_illegal, malformed_seen, hvars>>
    /\ UNCHANGED tvars
    /\ line_fate' = "searched"
    /\ UNCHANGED req_pending

\* the one-shot timer of engine line 232 expires: SIGALRM is delivered
AlarmFires ==
    /\ timer_armed
    /\ EngineAlive
    /\ engine_signal_handler("SIGALRM")
    /\ g_got_sigchld' = (g_got_sigchld \/ EngineEnded)
    /\ UNCHANGED <<cfg, rpc, bd, m, source, hist_pos, g_eng_pid, g_disp_pid, g_got_sigint,
                   g_got_sigterm, streams_open, exit_status, toEng, fromEng, toDisp, fromDisp,
                   dpc, emit_kind, outstanding, unsignalled, proposed_illegal, malformed_seen, hvars>>
    /\ UNCHANGED <<tvars, line_fate>>
    /\ UNCHANGED req_pending

(***************************************************************************)
(* The display adapter (util/xdisp), by its contract: a banner line, one   *)
(* move line per request-move, one acknowledgement per inform-move.  What  *)
(* the display writes is seen only where the orchestrator reads its        *)
(* stream, so its steps are taken there: the banner before the read at     *)
(* spawn or later, the answers while the orchestrator waits for a move.    *)
(***************************************************************************)
\* the banner line at start-up
DisplayBanner ==
    /\ dpc = "boot"
    /\ rpc \in {"banner_read", "req_disp_read"}
    /\ fromDisp' = Append(fromDisp, BannerLine)
    /\ dpc' = "serve"
    /\ UNCHANGED <<cfg, rpc, bd, m, source, hist_pos, g_eng_pid, g_disp_pid, g_got_sigint,
                   g_got_sigterm, g_got_sigchld, streams_open, exit_status, toEng, fromEng,
                   toDisp, evars, emit_kind, outstanding, unsignalled, proposed_illegal,
                   malformed_seen, hvars>>
    /\ UNCHANGED <<tvars, line_fate>>
    /\ UNCHANGED req_pending

\* one command is answered: a move of the user, or an acknowledgement
DisplayServe ==
    /\ dpc = "serve"
    /\ rpc = "req_disp_read"
    /\ toDisp # <<>>
    /\ toDisp' = Tail(toDisp)
    /\ IF Head(toDisp).k = "req"
       THEN \E mv \in Moves :
               fromDisp' = Append(fromDisp, [k |-> "move", side |-> Owner(mv), text |-> mv])
       ELSE fromDisp' = Append(fromDisp, OkLine)
    /\ UNCHANGED <<cfg, rpc, bd, m, source, hist_pos, g_eng_pid, g_disp_pid, g_got_sigint,
                   g_got_sigterm, g_got_sigchld, streams_open, exit_status, toEng, fromEng,
                   evars, dpc, emit_kind, outstanding, unsignalled, proposed_illegal,
                   malformed_seen, hvars>>
    /\ UNCHANGED <<tvars, line_fate>>
    /\ UNCHANGED req_pending

\* the user closes the display.  The orchestrator notices it by the
\* SIGCHLD flag at line 550 or by the end of the stream it reads, so the
\* exit is taken where it next does one of the two
DisplayExits ==
    /\ DisplayAlive
    /\ rpc = "loop_top" \/ (rpc = "req_disp_read" /\ fromDisp = <<>>)
    /\ dpc' = "dead"
    /\ g_got_sigchld' = TRUE
    /\ UNCHANGED <<cfg, rpc, bd, m, source, hist_pos, g_eng_pid, g_disp_pid, g_got_sigint,
                   g_got_sigterm, streams_open, exit_status, toEng, fromEng, toDisp, fromDisp,
                   evars, emit_kind, outstanding, unsignalled, proposed_illegal, malformed_seen, hvars>>
    /\ UNCHANGED <<tvars, line_fate>>
    /\ UNCHANGED req_pending

\* a step of the orchestrator process (ccheck.c), of whatever kind
OrchestratorStep ==
    \/ SpawnDisplay \/ BannerRead \/ LoadHistory \/ HistoryDone \/ SpawnEngine
    \/ LoopSignalled \/ LoopGameOver \/ RequestEngine \/ RequestDisplay \/ LocalInput
    \/ ReqEngKill \/ ReqEngRead \/ ReqEngEof \/ ReqDispKill \/ ReqDispRead \/ ReqDispEof
    \/ Validate \/ ApplyMove \/ NotifyEngine \/ NotifyKill \/ NotifyRead
    \/ ShutdownTerm \/ ShutdownClose \/ ShutdownReap
    \/ DieTerm \/ DieClose \/ DieKill \/ DieReap

Next ==
    \/ SpawnDisplay \/ BannerRead \/ LoadHistory \/ HistoryDone \/ SpawnEngine
    \/ LoopSignalled \/ LoopGameOver \/ RequestEngine \/ RequestDisplay \/ LocalInput
    \/ ReqEngKill \/ ReqEngRead \/ ReqEngEof \/ ReqDispKill \/ ReqDispRead \/ ReqDispEof
    \/ Validate \/ ApplyMove \/ NotifyEngine \/ NotifyKill \/ NotifyRead
    \/ ShutdownTerm \/ ShutdownClose \/ ShutdownReap
    \/ DieTerm \/ DieClose \/ DieKill \/ DieReap
    \/ EnvSignal
    \/ EngineBoot \/ EngineTop \/ EnginePause \/ EngineAfterWait
    \/ EngineReadRequest \/ EngineReqLoop \/ EngineReqSetjmp \/ EngineReqSearch
    \/ EngineReqEmit \/ EngineReadInform
    \/ EngineOppLoop \/ EngineOppSetjmp \/ EngineOppSearch \/ AlarmFires
    \/ DisplayBanner \/ DisplayServe \/ DisplayExits

Spec == Init /\ [][Next]_vars

\* a step of the engine process (engine.c)
EngineStep ==
    \/ EngineBoot \/ EngineTop \/ EnginePause \/ EngineAfterWait
    \/ EngineReadRequest \/ EngineReqLoop \/ EngineReqSetjmp \/ EngineReqSearch
    \/ EngineReqEmit \/ EngineReadInform
    \/ EngineOppLoop \/ EngineOppSetjmp \/ EngineOppSearch

\* every process that can take a step eventually takes one: the
\* orchestrator and the engine are running processes, the display answers
\* the commands it was sent
FairSpec ==
    /\ Spec
    /\ WF_vars(OrchestratorStep)
    /\ WF_vars(EngineStep)
    /\ WF_vars(DisplayBanner \/ DisplayServe)

\* the history replay on its own: no engine, a history file of up to
\* MaxReplay moves, the run up to the end of load_history_if_any
HistConfig ==
    [play_white_engine : {FALSE}, play_black_engine : {FALSE},
     no_display : BOOLEAN, tournament_mode : {FALSE},
     avgtime : {0}, init_file : SeqsUpTo(Moves, MaxReplay)]

InitHist ==
    /\ cfg \in HistConfig
    /\ InitState

NextHist ==
    \/ SpawnDisplay \/ BannerRead \/ DisplayBanner \/ LoadHistory \/ HistoryDone

SpecHist == InitHist /\ [][NextHist]_vars

\* game_loop lines 583-595 for one move handed over by a source: a legal
\* move is applied, on any other the loop is left with the board as it was
LoopCommit(b, mv) == IF mv # 0 /\ legal_move(mv, b) THEN apply(b, mv) ELSE b

\* the board after the moves of s went through the turn loop one at a time,
\* from the empty board
RECURSIVE LoopReplay(_)
LoopReplay(s) ==
    IF s = <<>> THEN <<>>
    ELSE LoopCommit(LoopReplay(SubSeq(s, 1, Len(s) - 1)), s[Len(s)])

\* every move of s is legal on the board its predecessors lead to
LegalSeq(s) == \A i \in 1..Len(s) : legal_move(s[i], SubSeq(s, 1, i - 1))

(***************************************************************************)
(* The engine on its own (engine.c): its standard input is fed any         *)
(* sequence of command lines, SIGHUP is sent to it at any time, and what   *)
(* it writes is read away.                                                 *)
(***************************************************************************)
\* the engine reads no launch parameter but avgtime, and what it does
\* without a budget it can also do with one (no time left, line 221): one
\* configuration stands for all
EngConfig ==
    [play_white_engine : {TRUE}, play_black_engine : {FALSE},
     no_display : {TRUE}, tournament_mode : {FALSE},
     avgtime : {1}, init_file : {<<>>}]

\* the engine child just forked (ccheck.c line 272), nothing written yet
InitEngState ==
    /\ rpc = "feeding"
    /\ bd = <<>>
    /\ m = 0
    /\ source = "none"
    /\ hist_pos = 0
    /\ g_eng_pid = ENG_PID
    /\ g_disp_pid = -1
    /\ g_got_sigint = FALSE
    /\ g_got_sigterm = FALSE
    /\ g_got_sigchld = FALSE
    /\ streams_open = TRUE
    /\ exit_status = "none"
    /\ toEng = <<>>
    /\ fromEng = <<>>
    /\ toDisp = <<>>
    /\ fromDisp = <<>>
    /\ epc = "boot"
    /\ ebd = <<>>
    /\ sighup_received = FALSE
    /\ sigalrm_received = FALSE
    /\ search_jmpbuf_valid = FALSE
    /\ search_jmpbuf = [at |-> "none", best_depth |-> 0]
    /\ principal_var = ZeroPV
    /\ depth = 0
    /\ current_depth = 1
    /\ best_depth = 0
    /\ searching_on_opponent_time = FALSE
    /\ first_wait = TRUE
    /\ timer_armed = FALSE
    /\ dpc = "none"
    /\ emit_kind = "none"
    /\ outstanding = [q \in Peers |-> 0]
    /\ unsignalled = [q \in Peers |-> FALSE]
    /\ proposed_illegal = FALSE
    /\ malformed_seen = FALSE
    /\ transcript = <<>>
    /\ sd_steps = <<>>
    /\ ack_missing = FALSE
    /\ exit_cause = "none"
    /\ xtime = 0
    /\ otime = 0
    /\ clock = 0
    /\ time_limit = 0
    /\ iter = 0
    /\ timer_left = 0
    /\ line_fate = "searched"
    /\ req_pending = FALSE

InitEng == cfg \in EngConfig /\ InitEngState

\* the command lines the engine can be fed: '<', and '>' followed by the
\* text of a move legal on its board b or by text that parses to no move (0)
FedLines(b) ==
    {ReqLine} \cup {InformLine(player_to_move(b), mv, -1, "feeder", "feeder") :
                        mv \in {0} \cup LegalMoves(b)}

\* a command line is written to the engine's standard input (the write of
\* ccheck.c lines 409-412 or 435, by whatever process holds the pipe)
FeedLine ==
    /\ rpc = "feeding"
    /\ EngineAlive
    /\ Len(ebd) < MaxFed
    /\ toEng = <<>>
    /\ fromEng = <<>>
    /\ ~unsignalled["engine"]
    /\ \E line \in FedLines(ebd) : toEng' = Append(toEng, line)
    /\ unsignalled' = [unsignalled EXCEPT !["engine"] = TRUE]
    /\ UNCHANGED <<cfg, rvars, fromEng, toDisp, fromDisp, evars, dpc, emit_kind, outstanding,
                   proposed_illegal, malformed_seen, hvars, tvars, line_fate>>
    /\ UNCHANGED req_pending

\* kill(g_eng_pid, SIGHUP) after the write (ccheck.c lines 414, 439): the
\* engine's handler runs
FeedSighup ==
    /\ rpc = "feeding"
    /\ EngineAlive
    /\ unsignalled["engine"]
    /\ engine_signal_handler("SIGHUP")
    /\ unsignalled' = [unsignalled EXCEPT !["engine"] = FALSE]
    /\ UNCHANGED <<cfg, rvars, pipes, dpc, emit_kind, outstanding, proposed_illegal,
                   malformed_seen, hvars, tvars, line_fate>>
    /\ UNCHANGED req_pending

\* a line the engine wrote is read from its standard output
FeedRead ==
    /\ rpc = "feeding"
    /\ fromEng # <<>>
    /\ fromEng' = Tail(fromEng)
    /\ UNCHANGED <<cfg, rvars, toEng, toDisp, fromDisp, evars, dpc, gvars, hvars, tvars,
                   line_fate>>
    /\ UNCHANGED req_pending

NextEng ==
    \/ FeedLine \/ FeedSighup \/ FeedRead
    \/ EngineBoot \/ EngineTop \/ EnginePause \/ EngineAfterWait
    \/ EngineReadRequest \/ EngineReqLoop \/ EngineReqSetjmp \/ EngineReqSearch
    \/ EngineReqEmit \/ EngineReadInform
    \/ EngineOppLoop \/ EngineOppSetjmp \/ EngineOppSearch \/ AlarmFires

SpecEng == InitEng /\ [][NextEng]_vars

(***************************************************************************)
(* The engine's clocks (engine.c lines 212-234, 320-327, 345, 374, 394).   *)
(* Time is counted in seconds, the unit of the timer of line 228, and it   *)
(* passes inside bestmove only: every other statement takes none.  The     *)
(* engine is handed its command lines one at a time while it waits.        *)
(***************************************************************************)
\* the budget is the one launch parameter the engine's clocks depend on
ClockConfig ==
    [play_white_engine : {TRUE}, play_black_engine : {FALSE},
     no_display : {TRUE}, tournament_mode : {FALSE},
     avgtime : {0, 1}, init_file : {<<>>}]

\* the engine waiting for its first command, its clocks at zero
InitClock == cfg \in ClockConfig /\ InitEngState

\* the side whose move led to board b
Mover(b) == IF player_to_move(b) = X THEN O ELSE X

\* setclock(p) of the library, called with t seconds on the running clock:
\* they are attributed to side p and the running clock restarts
setclock(p, t) ==
    /\ xtime' = IF p = X THEN xtime + t ELSE xtime
    /\ otime' = IF p = O THEN otime + t ELSE otime
    /\ clock' = 0

\* engine lines 217-220 (and 253-256): time_remaining on board b
TimeRemaining(b) ==
    cfg.avgtime * (move_number(b) + 1) - (IF player_to_move(b) = X THEN xtime ELSE otime)

\* engine lines 213-224: time_limit on board b
TimeLimit(b) == IF cfg.avgtime > 0 /\ TimeRemaining(b) > 0 THEN TimeRemaining(b) ELSE 0

\* the engine's start-up seen from its clocks: it reaches the top of its loop
ClkBoot ==
    /\ epc = "boot"
    /\ epc' = "top"
    /\ UNCHANGED <<cfg, rvars, pipes, ebd, sighup_received, sigalrm_received,
                   search_jmpbuf_valid, search_jmpbuf, principal_var, depth, current_depth,
                   best_depth, searching_on_opponent_time, first_wait, timer_armed, dpc,
                   gvars, hvars, tvars, line_fate>>
    /\ UNCHANGED req_pending

\* a command line is written and signalled (ccheck.c lines 409-414, 435-439)
\* while the engine waits, and the engine wakes to read it (engine lines
\* 99-113 and 185-204)
ClkFeed ==
    /\ rpc = "feeding"
    /\ epc = "top"
    /\ Len(ebd) < MaxPly
    /\ toEng = <<>>
    /\ fromEng = <<>>
    /\ \E line \in FedLines(ebd) : toEng' = Append(toEng, line)
    /\ epc' = "read_cmd"
    /\ searching_on_opponent_time' = FALSE
    /\ UNCHANGED <<cfg, rvars, fromEng, toDisp, fromDisp, ebd, sighup_received,
                   sigalrm_received, search_jmpbuf_valid, search_jmpbuf, principal_var, depth,
                   current_depth, best_depth, first_wait, timer_armed, dpc, gvars, hvars,
                   tvars, line_fate>>
    /\ UNCHANGED req_pending

\* engine lines 208-242 with the budget computed: time_limit, the one-shot
\* timer armed for it when it is positive, the start depth
ClkReadRequest ==
    /\ epc = "read_cmd"
    /\ toEng # <<>>
    /\ Head(toEng).k = "req"
    /\ toEng' = Tail(toEng)
    /\ time_limit' = TimeLimit(ebd)
    /\ IF time_limit' > 0
       THEN /\ timer_armed' = TRUE
            /\ timer_left' = time_limit'
            /\ sigalrm_received' = FALSE
       ELSE UNCHANGED <<timer_armed, timer_left, sigalrm_received>>
    /\ current_depth' = IF current_depth > 1 /\ best_depth = 0 THEN 1 ELSE current_depth
    /\ depth' = current_depth'
    /\ iter' = 0
    /\ epc' = "req_loop"
    /\ UNCHANGED <<cfg, rvars, fromEng, toDisp, fromDisp, ebd, sighup_received,
                   search_jmpbuf_valid, search_jmpbuf, principal_var, best_depth,
                   searching_on_opponent_time, first_wait, dpc, gvars, hvars,
                   xtime, otime, clock, line_fate>>
    /\ req_pending' = TRUE

\* a second passes while bestmove runs (engine line 288); the timer counts down
ClkTick ==
    /\ epc = "req_search"
    /\ iter < MaxIter
    /\ xtime + otime + clock < MaxTime
    /\ ~(timer_armed /\ timer_left = 0)
    /\ clock' = clock + 1
    /\ iter' = iter + 1
    /\ timer_left' = IF timer_armed THEN timer_left - 1 ELSE timer_left
    /\ UNCHANGED <<cfg, rvars, pipes, evars, dpc, gvars, hvars, xtime, otime, time_limit,
                   line_fate>>
    /\ UNCHANGED req_pending

\* the timer of line 232 has run down: SIGALRM
ClkAlarm == timer_left = 0 /\ AlarmFires

\* engine lines 271-316 on the clock: bestmove completes the depth
ClkSearch ==
    /\ epc = "req_search"
    /\ principal_var' \in bestmove(ebd, depth)
    /\ search_jmpbuf_valid' = FALSE
    /\ best_depth' = depth
    /\ IF ScoreDecided(ebd, depth) \/ sighup_received \/ sigalrm_received
       THEN /\ epc' = "req_emit"
            /\ UNCHANGED depth
       ELSE /\ epc' = "req_loop"
            /\ depth' = depth + 1
    /\ iter' = 0
    /\ line_fate' = "searched"
    /\ UNCHANGED <<cfg, rvars, pipes, ebd, sighup_received, sigalrm_received, search_jmpbuf,
                   current_depth, searching_on_opponent_time, first_wait, timer_armed, dpc,
                   gvars, hvars, xtime, otime, clock, time_limit, timer_left>>
    /\ UNCHANGED req_pending

\* engine lines 320-377 on the clock: the timer is cancelled if one was set,
\* the move is printed and applied and the time since the last setclock goes
\* to the side that moved; with no completed depth the depth-1 search of
\* line 365 runs first, for d seconds and with no timer
ClkEmit ==
    /\ epc = "req_emit"
    /\ timer_armed' = IF time_limit > 0 THEN FALSE ELSE timer_armed
    /\ \E d \in (IF best_depth >= 1 THEN {0} ELSE 0..MaxIter) :
          /\ xtime + otime + clock + d <= MaxTime
          /\ IF best_depth >= 1
             THEN UNCHANGED <<principal_var, depth>>
             ELSE /\ depth' = 1
                  /\ principal_var' \in bestmove(ebd, 1)
          /\ fromEng' = Append(fromEng, print_move(ebd, principal_var'[1]))
          /\ emit_kind' = EmitKind(principal_var'[1], ebd)
          /\ ebd' = apply(ebd, principal_var'[1])
          /\ setclock(Mover(ebd'), clock + d)
    /\ current_depth' = 1
    /\ best_depth' = 0
    /\ iter' = 0
    /\ epc' = "top"
    /\ line_fate' = "searched"
    /\ UNCHANGED <<cfg, rvars, toEng, toDisp, fromDisp, sighup_received, sigalrm_received,
                   search_jmpbuf_valid, search_jmpbuf, searching_on_opponent_time, first_wait,
                   dpc, outstanding, unsignalled, proposed_illegal, malformed_seen, hvars,
                   time_limit, timer_left>>
    /\ req_pending' = FALSE

\* engine lines 378-425 on the clock: an inform-move that parses is applied
\* and the time since the last setclock goes to the side that moved
ClkReadInform ==
    /\ epc = "read_cmd"
    /\ toEng # <<>>
    /\ Head(toEng).k = "inform"
    /\ toEng' = Tail(toEng)
    /\ LET mv == InformedMove(Head(toEng), ebd)
       IN  IF mv = 0
           THEN UNCHANGED <<ebd, principal_var, current_depth, best_depth, line_fate,
                            xtime, otime, clock>>
           ELSE /\ ebd' = apply(ebd, mv)
                /\ setclock(Mover(ebd'), clock)
                /\ IF best_depth >= 1 /\ principal_var[1] = mv /\ best_depth > 1
                   THEN /\ principal_var' = ShiftedPV(principal_var, best_depth)
                        /\ current_depth' = best_depth - 1
                        /\ best_depth' = best_depth - 1
                        /\ line_fate' = "carried"
                   ELSE /\ current_depth' = 1
                        /\ best_depth' = 0
                        /\ line_fate' = IF best_depth >= 1 /\ principal_var[1] # mv
                                        THEN "discarded" ELSE line_fate
                        /\ UNCHANGED principal_var
    /\ fromEng' = Append(fromEng, OkLine)
    /\ searching_on_opponent_time' = TRUE
    /\ epc' = "top"
    /\ UNCHANGED <<cfg, rvars, toDisp, fromDisp, sighup_received, sigalrm_received,
                   search_jmpbuf_valid, search_jmpbuf, depth, first_wait, timer_armed, dpc,
                   gvars, hvars, time_limit, iter, timer_left>>
    /\ UNCHANGED req_pending

NextClock ==
    \/ ClkBoot \/ ClkFeed \/ FeedRead
    \/ ClkReadRequest \/ EngineReqLoop \/ EngineReqSetjmp \/ ClkTick \/ ClkAlarm
    \/ ClkSearch \/ ClkEmit \/ ClkReadInform

SpecClock == InitClock /\ [][NextClock]_vars

(***************************************************************************)
(* Properties.                                                             *)
(***************************************************************************)
DiePcs == {"die_term", "die_close", "die_kill", "die_reap"}

Lines(q) == {q[i] : i \in 1..Len(q)}

Informs(q) == {l \in Lines(q) : l.k = "inform"}

\* the move an inform-move line carries is on the referee's board, at the
\* ply the line is for
Committed(l) == l.ply >= 0 /\ Len(bd) > l.ply /\ bd[l.ply + 1] = l.text

\* C1: every move on the referee's board was legal on the board before it
\* (the legality predicate holds of each committed move and its pre-move
\* state), whether it came from the turn loop or from the history file.
C1_CommittedMovesLegal ==
    \A i \in 1..Len(bd) : legal_move(bd[i], SubSeq(bd, 1, i - 1))

\* C2: the move line the engine writes for a request-move is a non-zero
\* move legal on the engine's board; it is never an illegal or empty move.
C2_EmittedMoveLegal == emit_kind \in {"none", "legal"}

\* C3: the orchestrator is never blocked reading the engine's answer while
\* the engine is parked in pause() with the command unread.
C3_NoLostWakeup ==
    ~(rpc \in {"req_eng_read", "notify_read"} /\ fromEng = <<>>
        /\ epc = "pause" /\ toEng # <<>>)

\* C4: half-duplex: for each peer there is at most one command whose
\* response the orchestrator has not consumed.
C4_HalfDuplex == \A q \in Peers : outstanding[q] <= 1

\* C5: when the orchestrator is at the top of a turn or blocked reading a
\* child's stream, every command line it wrote has been followed by the
\* wakeup signal to that child.
C5_CommandsSignalled ==
    rpc \in {"loop_top", "req_eng_read", "req_disp_read", "notify_read"}
        => \A q \in Peers : ~unsignalled[q]

\* C6: once a source has handed over an illegal move, the board never
\* changes again, the orchestrator only awaits the check or runs die(), and
\* it exits with failure status with every child terminated.
C6_IllegalMoveFatal ==
    [][proposed_illegal' =>
          /\ bd' = bd
          /\ rpc' \in DiePcs \cup {"validate", "exited"}
          /\ rpc' = "exited" =>
                /\ exit_status' = "failure"
                /\ epc' \in {"none", "dead"}
                /\ dpc' \in {"none", "dead"}]_vars

\* a source's illegal move has ended the run with failure status
C6_Witness == proposed_illegal /\ rpc = "exited" /\ exit_status = "failure"

\* C7: once a non-blank line that parses to no move was read as the answer
\* to a request-move, the orchestrator is in die() or has exited with
\* failure; it reads no further line.
C7_MalformedIsFatal ==
    malformed_seen =>
        \/ rpc \in DiePcs
        \/ rpc = "exited" /\ exit_status = "failure"

C9_InformOnlyNonActing ==
    /\ \A l \in Informs(toEng) : l.actor # "engine"
    /\ \A l \in Informs(toDisp) : l.actor # "display"

\* C10: at the start of a turn, with the engine alive, the engine's board
\* equals the referee's board.
C10_MirrorCongruent == (rpc = "loop_top" /\ EngineAlive) => ebd = bd

\* the shutdown the specification describes: graceful-terminate signal, close
\* of the streams, grace wait and forced kill, reap
OrderedShutdown == <<"term", "close", "wait_kill", "reap">>

\* C11: on every exit path the orchestrator has performed the same ordered
\* shutdown: terminate signal, close of all streams, grace wait and forced
\* kill, non-blocking reap.
C11_SameOrderedShutdown == rpc = "exited" => sd_steps = OrderedShutdown

\* the orchestrator is blocked reading a move from a live peer that has
\* written nothing
BlockedOnEngine == rpc = "req_eng_read" /\ fromEng = <<>> /\ EngineAlive

BlockedOnDisplay == rpc = "req_disp_read" /\ fromDisp = <<>> /\ DisplayAlive

\* C12: once a terminate or interrupt signal is flagged while the
\* orchestrator is blocked reading a move from a peer, the orchestrator can
\* go on by itself (towards leaving the loop), with no further line of that
\* peer.
C12_SignalEndsBlockedRead ==
    ((g_got_sigint \/ g_got_sigterm) /\ (BlockedOnEngine \/ BlockedOnDisplay))
        => ENABLED OrchestratorStep

\* the source the specification names for the turn about to start
ExpectedSource ==
    IF p_is_engine(bd) THEN "engine"
    ELSE IF TopDispPid > 0 /\ ~cfg.tournament_mode THEN "display"
    ELSE "local"

\* C13: at each turn the source asked is the engine when it plays the side
\* to move, else the display when one is present and tournament mode is off,
\* else local input; a display that is absent or has exited is never chosen.
C13_TurnResolution ==
    [][(AtTop /\ game_over(bd) = 0 /\ rpc' # rpc) => source' = ExpectedSource]_vars

\* C14: silence of the display is a soft failure: blocked on a silent
\* display the orchestrator can go on by itself (retry, then continue
\* without the display), and it never ends the run because the display gave
\* no answer.
C14_DisplaySilenceIsSoft ==
    /\ BlockedOnDisplay => ENABLED OrchestratorStep
    /\ exit_cause # "display_eof"

\* C15: when the read of an inform-move's acknowledgement meets the end of
\* the engine's stream, the orchestrator is back at the top of the turn loop
\* with the board unchanged, and has neither exited nor called die().
C15_MissingAckContinues ==
    [][(ack_missing' /\ ~ack_missing) =>
          /\ rpc' = "loop_top"
          /\ bd' = bd
          /\ exit_status' = "none"
          /\ exit_cause' = exit_cause]_vars

\* an acknowledgement was missing and the orchestrator is at the top of the
\* turn loop, still running
C15_Witness == ack_missing /\ rpc = "loop_top" /\ exit_status = "none"

\* a participant the game needs has exited: the engine, or the display when
\* it is the move source of a side
RequiredExited ==
    \/ epc = "dead"
    \/ /\ dpc = "dead"
       /\ ~cfg.tournament_mode
       /\ ~(cfg.play_white_engine /\ cfg.play_black_engine)

\* C16: once a required participant has exited, the turn loop eventually
\* terminates: the orchestrator exits.
C16_ExitedChildEndsLoop == RequiredExited ~> (rpc = "exited")

\* C17: with a history file of legal alternating moves, the board the
\* history replay has built from the moves read so far is the board the
\* turn loop reaches by committing the same moves one at a time: same
\* position, same ply count, same side to move.
C17_HistoryEqualsLoop ==
    LET read == SubSeq(cfg.init_file, 1, hist_pos)
    IN  LegalSeq(cfg.init_file) =>
            /\ bd = LoopReplay(read)
            /\ move_number(bd) = move_number(LoopReplay(read))
            /\ player_to_move(bd) = player_to_move(LoopReplay(read))

\* a legal history of the greatest length has been replayed whole
C17_Witness ==
    /\ rpc = "spawn_engine"
    /\ Len(cfg.init_file) = MaxReplay
    /\ LegalSeq(cfg.init_file)
    /\ hist_pos = MaxReplay
    /\ Len(bd) = MaxReplay

\* C18: in the transcript the second side's entry carries the turn number
\* of the first side's entry before it, the number grows by one from a turn
\* to the next, the first turn of a game without history is numbered 1, and
\* the second side's entries alone carry the "..." marker.
C18_TranscriptTurns ==
    /\ \A i \in 2..Len(transcript) :
          /\ (transcript[i].dots /\ ~transcript[i - 1].dots)
                => transcript[i].turn = transcript[i - 1].turn
          /\ (~transcript[i].dots /\ transcript[i - 1].dots)
                => transcript[i].turn = transcript[i - 1].turn + 1
    /\ (transcript # <<>> /\ cfg.init_file = <<>>) => transcript[1].turn = 1
    /\ \A i \in 1..Len(transcript) : transcript[i].dots = (transcript[i].side = O)

GracefulCauses == {"game_over", "signal", "end_of_input"}

FatalCauses ==
    {"illegal_move", "no_engine_answer", "display_eof", "spawn_error",
     "no_engine_child", "no_display_child"}

\* C19: the orchestrator has exited with success status exactly when it left
\* the turn loop gracefully (game over, signal, end of local input), and with
\* failure status after every fatal protocol violation and spawn error.
C19_ExitStatus ==
    rpc = "exited" =>
        /\ exit_cause \in GracefulCauses \cup FatalCauses
        /\ exit_status = "success" <=> exit_cause \in GracefulCauses
        /\ exit_status = "failure" <=> exit_cause \in FatalCauses

\* a spawn error has ended the run with failure status
C19_Witness == rpc = "exited" /\ exit_cause = "spawn_error" /\ exit_status = "failure"

\* C20: in a request-move exchange the orchestrator is about to signal only
\* with the request line written and not yet signalled, and it reads the
\* response only with the signal raised.
C20_RequestOrder ==
    /\ rpc = "req_eng_kill" =>
          (outstanding["engine"] >= 1 /\ unsignalled["engine"])
    /\ rpc = "req_disp_kill" =>
          (outstanding["display"] >= 1 /\ unsignalled["display"])
    /\ rpc = "req_eng_read" => ~unsignalled["engine"]
    /\ rpc = "req_disp_read" => ~unsignalled["display"]

\* the request line is in the display's pipe, the signal has been raised
\* and the orchestrator is reading the response
C20_Witness ==
    /\ rpc = "req_disp_read"
    /\ toDisp # <<>>
    /\ toDisp[Len(toDisp)] = ReqLine
    /\ ~unsignalled["display"]

\* the engine is about to read an inform-move line
InformArrives == epc = "read_cmd" /\ toEng # <<>> /\ Head(toEng).k = "inform"

\* the move of the inform-move line at the head of the engine's input
ArrivingMove == InformedMove(Head(toEng), ebd)

\* C22: an inform-move whose move is illegal on the engine's board, or does
\* not parse, is not applied and not acknowledged: the engine terminates.
C22_IllegalInformEndsEngine ==
    [][(InformArrives /\ ~legal_move(ArrivingMove, ebd) /\ epc' # epc)
       => (ebd' = ebd /\ fromEng' = fromEng /\ epc' = "dead")]_vars

\* C23: every 'ok' the engine writes for an inform-move is preceded by the
\* application of that line's move to the engine's board.
C23_AckOnlyAfterApply ==
    [][(InformArrives /\ fromEng' = Append(fromEng, OkLine))
       => (Head(toEng).text # 0 /\ ebd' = apply(ebd, Head(toEng).text))]_vars

\* a signal's handler takes the engine out of a depth computation in progress
\* (the signal is the orchestrator's SIGHUP or the timer's SIGALRM)
CancelledInSearch ==
    /\ epc \in {"req_search", "opp_search"}
    /\ search_jmpbuf_valid
    /\ epc' \notin {epc, "dead"}
    /\ rpc' # rpc \/ timer_armed' # timer_armed

\* C24: a cancellation during a depth computation discards the partial
\* result: the depth last completed and the head of its best line, which is
\* the move then emitted, are as they were before the aborted depth.
C24_AbortKeepsCompletedLine ==
    [][(CancelledInSearch /\ best_depth >= 1)
       => (best_depth' = best_depth /\ principal_var'[1] = principal_var[1])]_vars

\* the move of the arriving inform-move line is the head of the stored best line
HeadPredicted == InformArrives /\ ArrivingMove # 0 /\ best_depth >= 1 /\ principal_var[1] = ArrivingMove

\* the stored line of depth d with its head removed: entry i is entry i + 1
\* of the original, for every retained index
HeadRemoved(d) == \A i \in 1..(d - 1) : principal_var'[i] = principal_var[i + 1]

\* C25 as stated: when the informed move equals the head of the stored best
\* line, the retained line is the stored line with its head removed and
\* deepening resumes one ply shallower than the stored line's depth.
C25_CarryOverAnyDepth ==
    [][(HeadPredicted /\ epc' = "top")
       => (HeadRemoved(best_depth) /\ current_depth' = best_depth - 1)]_vars

\* C25, amended: so it is for a stored line deeper than one ply; a stored
\* line of one ply is dropped and deepening restarts at depth 1.
C25_CarryOver ==
    [][(HeadPredicted /\ epc' = "top")
       => IF best_depth > 1
          THEN /\ HeadRemoved(best_depth)
               /\ current_depth' = best_depth - 1
               /\ best_depth' = best_depth - 1
          ELSE /\ current_depth' = 1
               /\ best_depth' = 0]_vars

C25_Witness ==
    /\ line_fate = "carried"
    /\ epc = "top"
    /\ best_depth >= 1
    /\ current_depth = best_depth
    /\ fromEng # <<>> /\ fromEng[Len(fromEng)] = OkLine

\* C26: once an inform-move that differs from the head of the stored best
\* line has dropped that line, and until a search on the new position has
\* completed, the engine holds no line to emit and deepening starts at depth 1.
C26_DiscardedLineUnused ==
    line_fate = "discarded" => (best_depth = 0 /\ current_depth = 1)

\* C30: whenever the handler is allowed to jump (search_jmpbuf_valid), the
\* buffer holds the resume point the sigsetjmp of the depth iteration in
\* progress has set, in the search loop the engine is in.
C30_JumpBufferCurrent ==
    search_jmpbuf_valid
    => \/ epc = "req_search" /\ search_jmpbuf.at = "req"
       \/ epc = "opp_search" /\ search_jmpbuf.at = "opp"

\* SIGHUP is delivered to the running engine by this step: the kill() of a
\* request-move or of an inform-move
SighupDelivered ==
    /\ EngineAlive /\ epc # "boot"
    /\ \/ rpc \in {"req_eng_kill", "notify_kill"} /\ rpc' # rpc
       \/ rpc = "feeding" /\ unsignalled["engine"] /\ ~unsignalled'["engine"]

\* C29: SIGHUP is coalesced: one delivered while the wakeup flag is still
\* set from an earlier one changes nothing in the engine, so that the next
\* test of the flag finds it set once and one command line is read.
C29_SighupCoalesced ==
    [][(SighupDelivered /\ sighup_received) => UNCHANGED evars]_vars

\* a request-move is being served: between its budget and its move line
ServingRequest == epc \in {"req_loop", "req_setjmp", "req_search", "req_emit"}

\* the moves side p has made on board b
OwnMoves(b, p) == Cardinality({i \in 1..Len(b) : player_to_move(SubSeq(b, 1, i - 1)) = p})

\* the time attributed to side p so far
TimeUsed(p) == IF p = X THEN xtime ELSE otime

\* the budget counted from the moving side's own moves
OwnBudget(b) ==
    cfg.avgtime * (OwnMoves(b, player_to_move(b)) + 1) - TimeUsed(player_to_move(b))

\* C27: on request-move the time budget is avg_time_per_move * (moves made by
\* the engine's own side + 1) minus the time that side has consumed: the
\* count is the moving side's own, not the plies of both sides.
C27_BudgetCountsOwnMoves ==
    (ServingRequest /\ cfg.avgtime > 0 /\ OwnBudget(ebd) > 0) => time_limit = OwnBudget(ebd)

\* C28: every request-move search is bounded: with a budget configured the
\* time limit is positive and the one-shot timer was armed for it before
\* deepening started, also when no time remains; with no budget configured
\* deepening stops at a depth cap below the hard ply ceiling.
C28_RequestSearchBounded ==
    (ServingRequest /\ search_jmpbuf.at # "opp") =>
        /\ cfg.avgtime > 0 => (time_limit > 0 /\ (timer_armed \/ sigalrm_received))
        /\ (cfg.avgtime = 0 /\ epc = "req_search") => depth < MAXPLY

\* C21: with a budget configured, the time attributed to a side never exceeds
\* avg_time_per_move * (moves that side has made) by more than the duration
\* of one depth iteration, also after requests that started with no time left.
C21_CumulativeTimeBounded ==
    cfg.avgtime > 0 =>
        \A p \in {X, O} : TimeUsed(p) <= cfg.avgtime * OwnMoves(ebd, p) + MaxIter

\* the orchestrator sends the engine its wakeup signal in this step
WakeupSent == rpc \in {"req_eng_kill", "notify_kill"} /\ rpc' # rpc

\* C31: a wakeup signal never kills the engine: every SIGHUP the orchestrator
\* sends reaches the engine after setup_engine_signals has installed the
\* handler, however the engine's start-up interleaves with the first command.
C31_WakeupAfterHandler == [][WakeupSent => epc # "boot"]_vars

\* the engine writes a line to its standard output in this step
EngineWrites == Len(fromEng') > Len(fromEng)

\* C32: the engine writes only in response to a command it has consumed: one
\* move line for a '<' read and not yet answered, one 'ok' in the step that
\* consumes a '>', and nothing else, so that the lines written never
\* outnumber the commands consumed.
C32_WritesAnswerCommands ==
    [][EngineWrites =>
          /\ fromEng' = Append(fromEng, fromEng'[Len(fromEng')])
          /\ IF fromEng'[Len(fromEng')] = OkLine
             THEN InformArrives /\ toEng' = Tail(toEng)
             ELSE req_pending /\ ~req_pending']_vars

\* the engine plays exactly one of the two sides
OneSideEngine == cfg.play_white_engine # cfg.play_black_engine

\* C33: with the engine on exactly one side, best_depth is 0 whenever an
\* inform-move is about to be processed (it is reset after every emitted
\* move), so the stored line is never carried over and deepening restarts
\* from depth 1 at every inform-move.
C33_NoLineAtInform ==
    OneSideEngine =>
        /\ InformArrives => (best_depth = 0 /\ current_depth = 1)
        /\ line_fate # "carried"

\* an inform-move reaches an engine that has emitted a move before
C33_Witness ==
    /\ OneSideEngine
    /\ InformArrives
    /\ ArrivingMove # 0
    /\ emit_kind = "legal"
    /\ best_depth = 0

\* the orchestrator takes a line of the display as the answer to a request-move
DisplayAnswerRead == rpc = "req_disp_read" /\ fromDisp # <<>> /\ fromDisp' = Tail(fromDisp)

\* C34: the display's banner line is consumed before the answer to the first
\* request-move is read, whenever it arrives relative to the non-blocking read
\* at spawn: the line read as the answer to a request-move is never the banner.
C34_BannerNotAnAnswer == [][DisplayAnswerRead => Head(fromDisp) # BannerLine]_vars

\* the orchestrator is between writing a command to the engine and having
\* read the answer: a kill(g_eng_pid, SIGHUP) is about to be or was issued
EngineAddressed == rpc \in {"req_eng_kill", "req_eng_read", "notify_kill", "notify_read"}

\* the same for the display
DisplayAddressed == rpc \in {"req_disp_kill", "req_disp_read"}

\* C35: every signal and request of the orchestrator goes to a process id
\* recorded at spawn, never to the sentinel: a handle is -1 or the pid fork
\* returned, a child is addressed only while its handle is that pid, and a
\* handle is the sentinel only for a child never spawned or ended and reaped.
C35_NoSignalToSentinel ==
    /\ g_eng_pid \in {-1, ENG_PID}
    /\ g_disp_pid \in {-1, DISP_PID}
    /\ EngineAddressed => g_eng_pid = ENG_PID
    /\ DisplayAddressed => g_disp_pid = DISP_PID
    /\ g_eng_pid = -1 => ~EngineAlive
    /\ g_disp_pid = -1 => ~DisplayAlive

\* the engine is sent its wakeup after the display has ended and been reaped
C35_Witness ==
    /\ g_disp_pid = -1
    /\ dpc = "dead"
    /\ rpc = "req_eng_read"
    /\ g_eng_pid = ENG_PID
    /\ ~unsignalled["engine"]

====
